---------------------------- MODULE Spec2Model ----------------------------
(***************************************************************************)
(* Model of RapidConvergeWorkChain                                         *)
(* (src/aiida_user_addons/vworkflows/converge.py): the outline of the      *)
(* work chain as a program counter, the context (ctx) as records, the      *)
(* sub-workchains it submits as a registry of calculations resolved by the *)
(* engine in any order, and the convergence checkers as operators.         *)
(*                                                                         *)
(* Representation.  A Python value that may be None is a sequence: None is *)
(* << >> and the number v is << v >>.  A k-point grid is << a, b, c >>.    *)
(* A row of a sweep table is a sequence of such optional numbers, at the   *)
(* positions of the Python list (1-based here, 0-based in the source).     *)
(* A context attribute that holds a table is a record [kind, rows]: kind   *)
(* is "list", "None", or "unset" (the attribute was never assigned).       *)
(* Floats are modelled by integers; rounding is not modelled.              *)
(***************************************************************************)
EXTENDS Integers, Sequences, FiniteSets, TLC

VARIABLES
    inputs,     \* the inputs of the work chain (self.inputs), never modified
    pc,         \* the step of the outline that runs next
    status,     \* "running", "excepted" (a step raised) or "finished"
    settings,   \* self.ctx.converge.settings
    converge,   \* self.ctx.converge (tables, flags, samplings, structure)
    cinputs,    \* self.ctx.inputs and self.ctx.converge.parameters
    wc,         \* the work chain lists of ctx and its scalar bookkeeping
    calcs,      \* every sub-workchain submitted so far, by submission index
    reports,    \* what self.report was called with (the kinds of message)
    outputs,    \* what self.out attached
    chk,        \* the function under test (SpecChecker) or the locals of
                \* create_delithiated_multiple_level (SpecRetry)
    permuted    \* history: the step just taken was a save_*_conv_many of a
                \* batch whose members had completed out of submission order

vars == << inputs, pc, status, settings, converge, cinputs, wc, calcs,
           reports, outputs, chk, permuted >>

(***************************************************************************)
(* Optional values and tables                                              *)
(***************************************************************************)
None == << >>

Some(v) == << v >>

TList(rows) == [kind |-> "list", rows |-> rows]

TNone == [kind |-> "None", rows |-> << >>]

TUnset == [kind |-> "unset", rows |-> << >>]

\* The exit codes of the work chain
NO_ERROR == 0

ERROR_UNKNOWN == 500

ERROR_NO_CALLED_WORKCHAIN == 420

Abs(x) == IF x < 0 THEN 0 - x ELSE x

Max2(a, b) == IF a > b THEN a ELSE b

(***************************************************************************)
(* The convergence checkers                                                *)
(***************************************************************************)
\* _ALLOWED_CUTOFF_TYPES: the column offset of each metric
ALLOWED_CUTOFF_TYPES == [energy |-> 0, forces |-> 1, vbm |-> 2, gap |-> 3]

CutoffTypes == {"energy", "forces", "vbm", "gap"}

\* "None not in elements" is false for a row with a None entry
HasNone(row) == \E i \in 1..Len(row) : row[i] = None

\* [elements for elements in data if None not in elements]
DropNone(data) == SelectSeq(data, LAMBDA r : ~HasNone(r))

\* The for loop of the checkers over range(1, len(data)): the first index k
\* (1-based here: 2..Len) with abs(data[k][col] - data[k-1][col]) <
\* cutoff_value, where the loop breaks; 0 when the loop ends without a break.
RECURSIVE ScanPairs(_, _, _, _)
\* ScanPairs with "<=" for "<"
MutScanPairsNonStrict(data, col, cutoff_value, k) ==
    IF k > Len(data) THEN 0
    ELSE IF Abs(data[k][col][1] - data[k - 1][col][1]) <= cutoff_value THEN k
    ELSE ScanPairs(data, col, cutoff_value, k + 1)

ScanPairs(data, col, cutoff_value, k) ==
    IF k > Len(data) THEN 0
    ELSE IF Abs(data[k][col][1] - data[k - 1][col][1]) < cutoff_value THEN k
    ELSE ScanPairs(data, col, cutoff_value, k + 1)

\* _check_pw_converged returning the cutoff at the index found in the table
\* as it was passed, pw_data before the rows with None were dropped
MutCheckPwConvergedUnfiltered(pw_data, cutoff_type, cutoff_value) ==
    LET data == DropNone(pw_data)
        criteria == ALLOWED_CUTOFF_TYPES[cutoff_type]
        index == ScanPairs(data, criteria + 2, cutoff_value, 2)
    IN  IF Len(data) < 2 THEN None
        ELSE IF index = 0 THEN None
        ELSE pw_data[index][1]

\* _check_pw_converged with its three arguments given: the cutoff of the
\* row found (pw_data[index][0]), or None.
CheckPwConverged(pw_data, cutoff_type, cutoff_value) ==
    LET data == DropNone(pw_data)
        criteria == ALLOWED_CUTOFF_TYPES[cutoff_type]
        index == ScanPairs(data, criteria + 2, cutoff_value, 2)
    IN  IF Len(data) < 2 THEN None
        ELSE IF index = 0 THEN None
        ELSE data[index][1]

\* _check_kpoints_converged with its three arguments given: the grid of the
\* row found (k_data[index][0:3]), or None.
CheckKpointsConverged(k_data, cutoff_type, cutoff_value) ==
    LET data == DropNone(k_data)
        criteria == ALLOWED_CUTOFF_TYPES[cutoff_type]
        index == ScanPairs(data, criteria + 5, cutoff_value, 2)
    IN  IF Len(data) < 2 THEN None
        ELSE IF index = 0 THEN None
        ELSE << data[index][1][1], data[index][2][1], data[index][3][1] >>

(***************************************************************************)
(* Structures, reciprocal cells and k-point grids                          *)
(***************************************************************************)
\* A structure is the input structure with the perturbations applied to it.
OrigStructure == [displaced |-> FALSE, compressed |-> FALSE]

\* The lengths of the reciprocal lattice vectors of a structure; a volume
\* change alters them, a displacement of one atom does not.
RecCell(structure) ==
    IF structure.compressed THEN << 11, 11, 11 >> ELSE << 12, 12, 12 >>

CeilDiv(a, b) == (a + b - 1) \div b

\* fetch_k_grid(rec_cell, k_spacing) of aiida_vasp: ceil(|b_i| / spacing) in
\* each direction.  A spacing is the fraction << numerator, denominator >>.
FetchKGrid(rec_cell, spacing) ==
    [i \in 1..3 |-> CeilDiv(rec_cell[i] * spacing[2], spacing[1])]

\* converge.pwcutoff_sampling: [start + x * step for x in range(samples)]
PwcutoffSampling(start, step, samples) ==
    [x \in 1..samples |-> start + (x - 1) * step]

\* converge.k_sampling running from k_dense to k_coarse
MutKSamplingReversed(k_coarse, k_dense, k_samples) ==
    [x \in 1..(k_samples + 1) |->
        << k_dense * k_samples + (x - 1) * (k_coarse - k_dense), k_samples >>]

\* converge.k_sampling: [k_coarse - x * stepping for x in range(k_samples+1)]
\* with stepping = (k_coarse - k_dense) / k_samples, as exact fractions.
KSampling(k_coarse, k_dense, k_samples) ==
    [x \in 1..(k_samples + 1) |->
        << k_coarse * k_samples - (x - 1) * (k_coarse - k_dense), k_samples >>]

\* The loop of _init_kpoints_conv appending the grid of every spacing
MutUniqueKgridsAll(rec_cell, k_sampling, i, last_kgrid) ==
    [n \in 1..Len(k_sampling) |-> FetchKGrid(rec_cell, k_sampling[n])]

\* The loop of _init_kpoints_conv over k_sampling: a grid equal to the one
\* before it (last_kgrid) is skipped.
RECURSIVE UniqueKgrids(_, _, _, _)
UniqueKgrids(rec_cell, k_sampling, i, last_kgrid) ==
    IF i > Len(k_sampling) THEN << >>
    ELSE LET kgrid == FetchKGrid(rec_cell, k_sampling[i])
         IN  IF kgrid = last_kgrid
             THEN UniqueKgrids(rec_cell, k_sampling, i + 1, last_kgrid)
             ELSE << kgrid >> \o UniqueKgrids(rec_cell, k_sampling, i + 1, kgrid)

(***************************************************************************)
(* The context as one value, so that a step is a composition of the        *)
(* methods it calls.  exc is set when a method raises: every method is     *)
(* then skipped and the step ends with the process excepted.               *)
(***************************************************************************)
Ctx == [settings |-> settings, converge |-> converge, cinputs |-> cinputs,
        wc |-> wc, calcs |-> calcs, reports |-> reports,
        outputs |-> outputs, exc |-> FALSE]

Raise(C) == [C EXCEPT !.exc = TRUE]

Report(C, msg) == [C EXCEPT !.reports = @ \cup {msg}]

\* self.ctx.inputs.parameters: the object of ctx.converge.parameters once
\* _set_input_nodes has assigned it, the object made by initialize before.
InParams(C) ==
    IF C.cinputs.aliased THEN C.cinputs.conv_parameters
    ELSE C.cinputs.parameters

\* self.ctx.inputs.parameters.update({"encut": v})
UpdateInParamsEncut(C, v) ==
    IF C.cinputs.aliased
    THEN [C EXCEPT !.cinputs.conv_parameters.encut = v]
    ELSE [C EXCEPT !.cinputs.parameters.encut = v]

\* _set_default_kgrid
SetDefaultKgrid(C, inp) ==
    LET kgrid == FetchKGrid(RecCell(C.converge.kpoints.cell),
                            << inp.k_spacing, 1 >>)
    IN [C EXCEPT !.settings.kgrid = kgrid,
                 !.converge.kpoints =
                     [mesh |-> kgrid, cell |-> C.converge.structure]]

\* _init_context with converge.pwcutoff before encut and converge.kgrid
\* before the kpoints mesh
MutInitSettingsConvergeFirst(inp) ==
    LET pwcutoff == IF inp.pwcutoff # None THEN inp.pwcutoff ELSE inp.encut
        supplied_kmesh == inp.kpoints # None
        kgrid == inp.kgrid
    IN [pwcutoff |-> pwcutoff, pwcutoff_org |-> pwcutoff,
        pwcutoff_list |-> << >>,
        kgrid |-> kgrid, kgrid_org |-> kgrid, kgrid_list |-> << >>,
        supplied_kmesh |-> supplied_kmesh]

\* _init_context: the settings after it (converge.pwcutoff, overridden by an
\* encut of the parameters input; supplied_kmesh; converge.kgrid).
InitSettings(inp) ==
    LET pwcutoff == IF inp.encut # None THEN inp.encut ELSE inp.pwcutoff
        supplied_kmesh == inp.kpoints # None
        kgrid == IF supplied_kmesh THEN None ELSE inp.kgrid
    IN [pwcutoff |-> pwcutoff, pwcutoff_org |-> pwcutoff,
        pwcutoff_list |-> << >>,
        kgrid |-> kgrid, kgrid_org |-> kgrid, kgrid_list |-> << >>,
        supplied_kmesh |-> supplied_kmesh]

\* converge.data before store_conv has run
NoData ==
    [pw_regular |-> TUnset, kpoints_regular |-> TUnset,
     pw_displacement |-> TUnset, kpoints_displacement |-> TUnset,
     pw_compression |-> TUnset, kpoints_compression |-> TUnset]

\* _init_context and the first lines of initialize: the context before
\* _init_pw_conv and _init_kpoints_conv.
InitContext(inp) ==
    [settings |-> InitSettings(inp),
     converge |->
        [pw_data |-> TNone, k_data |-> TNone,
         pw_data_org |-> TUnset, k_data_org |-> TUnset,
         pw_data_displacement |-> TUnset, k_data_displacement |-> TUnset,
         pw_data_comp |-> TUnset, k_data_comp |-> TUnset,
         run_pw_conv_calcs |-> FALSE, run_pw_conv_calcs_org |-> FALSE,
         run_kpoints_conv_calcs |-> FALSE,
         run_kpoints_conv_calcs_org |-> FALSE,
         pwcutoff_sampling |-> << >>, k_sampling |-> << >>,
         kgrids |-> << >>, kgrids_set |-> FALSE,
         structure |-> OrigStructure,
         kpoints |-> [mesh |-> << 1, 1, 1 >>, cell |-> OrigStructure]],
     cinputs |->
        [parameters |->
            [encut |-> inp.encut, relax_perform |-> inp.relax_perform],
         conv_parameters |->
            [encut |-> inp.encut, relax_perform |-> inp.relax_perform],
         conv_parameters_set |-> FALSE,
         aliased |-> FALSE,
         structure |-> OrigStructure,
         kpoints |-> [mesh |-> << 1, 1, 1 >>, cell |-> OrigStructure],
         kpoints_set |-> FALSE],
     wc |->
        [pw_workchains |-> << >>, kpoints_workchains |-> << >>,
         workchains |-> << >>,
         pw_workchains_uuids |-> << >>, kpoints_workchains_uuids |-> << >>,
         running_pw |-> FALSE, running_kpoints |-> FALSE,
         set_input_nodes |-> TRUE,
         exit_code |-> ERROR_UNKNOWN],
     calcs |-> << >>, reports |-> {},
     outputs |-> [data_set |-> FALSE, data |-> NoData, exposed |-> FALSE,
                  exit_status |-> None],
     exc |-> FALSE]

\* _init_pw_conv
InitPwConv(C, inp) ==
    IF C.settings.pwcutoff_org = None
    THEN LET C1 == [C EXCEPT !.converge.pw_data = TList(<< >>),
                             !.cinputs.conv_parameters_set = TRUE]
             C2 == IF ~C.settings.supplied_kmesh /\ C.settings.kgrid_org = None
                   THEN SetDefaultKgrid(C1, inp) ELSE C1
         IN [C2 EXCEPT !.converge.run_pw_conv_calcs = TRUE,
                       !.converge.run_pw_conv_calcs_org = TRUE,
                       !.converge.pwcutoff_sampling =
                           PwcutoffSampling(inp.pwcutoff_start,
                                            inp.pwcutoff_step,
                                            inp.pwcutoff_samples)]
    ELSE C

\* _init_kpoints_conv (the grids come from the cell of the input structure)
InitKpointsConv(C, inp) ==
    IF ~C.settings.supplied_kmesh /\ C.settings.kgrid_org = None
    THEN LET k_sampling == KSampling(inp.k_coarse, inp.k_dense, inp.k_samples)
         IN [C EXCEPT !.converge.k_data = TList(<< >>),
                      !.converge.run_kpoints_conv_calcs = TRUE,
                      !.converge.run_kpoints_conv_calcs_org = TRUE,
                      !.converge.k_sampling = k_sampling,
                      !.converge.kgrids =
                          UniqueKgrids(RecCell(OrigStructure), k_sampling,
                                       1, None),
                      !.converge.kgrids_set = TRUE]
    ELSE C

\* initialize
DoInitialize(inp) == InitKpointsConv(InitPwConv(InitContext(inp), inp), inp)

(***************************************************************************)
(* Submitting sub-workchains                                               *)
(***************************************************************************)
\* What a sub-workchain returns when it finishes with exit status 0: the
\* total energy, the maximum force and the band gap found (None when
\* find_bandgap finds none).
Payloads ==
    { [energy |-> 0, force |-> 0, gap |-> None],
      [energy |-> 1, force |-> 2, gap |-> Some(1)] }

Payload0 == [energy |-> 0, force |-> 0, gap |-> None]

\* _set_input_nodes
SetInputNodes(C, inp) ==
    LET perform0 == InParams(C).relax_perform
        perform1 == IF perform0 /\ ~inp.conv_relax THEN FALSE ELSE perform0
        perform2 == IF inp.conv_relax THEN TRUE ELSE perform1
        C1 == IF C.cinputs.aliased
              THEN [C EXCEPT !.cinputs.conv_parameters.relax_perform = perform2]
              ELSE [C EXCEPT !.cinputs.parameters.relax_perform = perform2]
        C2 == [C1 EXCEPT !.cinputs.structure = C.converge.structure]
        C3 == IF C.settings.pwcutoff_org = None \/ inp.testing
              THEN IF C.cinputs.conv_parameters_set
                   THEN [C2 EXCEPT !.cinputs.aliased = TRUE]
                   ELSE Raise(C2)
              ELSE C2
    IN  IF C3.exc THEN C3
        ELSE IF ~C.settings.supplied_kmesh
        THEN [C3 EXCEPT !.cinputs.kpoints = C.converge.kpoints,
                        !.cinputs.kpoints_set = TRUE]
        ELSE [C3 EXCEPT !.cinputs.kpoints =
                            [mesh |-> inp.kpoints, cell |-> OrigStructure],
                        !.cinputs.kpoints_set = TRUE]

\* init_next_workchain (the inputs are read by SubmitNextWorkchain)
InitNextWorkchain(C, inp) ==
    IF C.exc THEN C
    ELSE IF C.wc.set_input_nodes THEN SetInputNodes(C, inp)
    ELSE C

\* submit_next_workchain followed by to_context(key=append_(running)): the
\* sub-workchain is registered with the inputs prepared from ctx.inputs and
\* is pending until the engine resolves it.  Its uuid is its index.
SubmitNextWorkchain(C, key) ==
    IF C.exc THEN C
    ELSE [C EXCEPT !.calcs = Append(@,
            [key |-> key,
             encut |-> InParams(C).encut,
             relax_perform |-> InParams(C).relax_perform,
             structure |-> C.cinputs.structure,
             kpoints |-> C.cinputs.kpoints,
             state |-> "pending", exit_status |-> 0,
             payload |-> Payload0])]

\* init_pw_conv_calc_no_block without the update of encut
MutInitPwConvCalcNoBlockNoEncut(C, pw_iteration) ==
    LET pwcutoff == C.converge.pwcutoff_sampling[pw_iteration]
    IN  IF ~C.cinputs.conv_parameters_set THEN Raise(C)
        ELSE [C EXCEPT !.settings.pwcutoff = Some(pwcutoff),
                       !.settings.pwcutoff_list = Append(@, pwcutoff),
                       !.wc.running_pw = TRUE,
                       !.wc.running_kpoints = FALSE]

\* init_pw_conv_calc_no_block
InitPwConvCalcNoBlock(C, pw_iteration) ==
    LET pwcutoff == C.converge.pwcutoff_sampling[pw_iteration]
    IN  IF ~C.cinputs.conv_parameters_set THEN Raise(C)
        ELSE [C EXCEPT !.settings.pwcutoff = Some(pwcutoff),
                       !.settings.pwcutoff_list = Append(@, pwcutoff),
                       !.cinputs.conv_parameters.encut = Some(pwcutoff),
                       !.wc.running_pw = TRUE,
                       !.wc.running_kpoints = FALSE]

\* The loop of run_pw_conv_many from sample pw_id on (each stage of an
\* iteration is bound to its value before the next one reads it).
RECURSIVE RunPwLoop(_, _, _)
RunPwLoop(C, inp, pw_id) ==
    IF C.exc \/ pw_id > Len(C.converge.pwcutoff_sampling) THEN C
    ELSE CHOOSE r \in
            { RunPwLoop(submitted, inp, pw_id + 1) :
                submitted \in
                  { SubmitNextWorkchain(prepared, "pw_workchains") :
                      prepared \in
                        { InitNextWorkchain(sample, inp) :
                            sample \in {InitPwConvCalcNoBlock(C, pw_id)} } } } :
            TRUE

\* run_pw_conv_many: the uuids of the batch replace ctx.pw_workchains_uuids
RunPwConvMany(C, inp) ==
    LET C1 == RunPwLoop(C, inp, 1)
    IN  IF C1.exc THEN C1
        ELSE [C1 EXCEPT !.wc.pw_workchains_uuids =
                 [i \in 1..(Len(C1.calcs) - Len(C.calcs)) |-> Len(C.calcs) + i]]

\* init_kpoints_conv_calc_no_block without the update of encut
MutInitKpointsConvCalcNoBlockNoEncut(C, kpt_id) ==
    LET kgrid == C.converge.kgrids[kpt_id]
    IN  [C EXCEPT !.settings.kgrid = kgrid,
                  !.settings.kgrid_list = Append(@, kgrid),
                  !.converge.kpoints =
                      [mesh |-> kgrid, cell |-> C.converge.structure],
                  !.wc.running_kpoints = TRUE,
                  !.wc.running_pw = FALSE]

\* init_kpoints_conv_calc_no_block
InitKpointsConvCalcNoBlock(C, kpt_id) ==
    LET kgrid == C.converge.kgrids[kpt_id]
        C1 == [C EXCEPT !.settings.kgrid = kgrid,
                        !.settings.kgrid_list = Append(@, kgrid),
                        !.converge.kpoints =
                            [mesh |-> kgrid, cell |-> C.converge.structure],
                        !.wc.running_kpoints = TRUE,
                        !.wc.running_pw = FALSE]
    IN  UpdateInParamsEncut(C1, C.settings.pwcutoff)

\* The loop of run_kpoints_conv_many from grid kpt_id on.
RECURSIVE RunKpointsLoop(_, _, _)
RunKpointsLoop(C, inp, kpt_id) ==
    IF C.exc \/ kpt_id > Len(C.converge.kgrids) THEN C
    ELSE CHOOSE r \in
            { RunKpointsLoop(submitted, inp, kpt_id + 1) :
                submitted \in
                  { SubmitNextWorkchain(prepared, "kpoints_workchains") :
                      prepared \in
                        { InitNextWorkchain(sample, inp) :
                            sample \in {InitKpointsConvCalcNoBlock(C, kpt_id)} } } } :
            TRUE

\* run_kpoints_conv_many
RunKpointsConvMany(C, inp) ==
    LET C1 == RunKpointsLoop(C, inp, 1)
    IN  IF C1.exc THEN C1
        ELSE [C1 EXCEPT !.wc.kpoints_workchains_uuids =
                 [i \in 1..(Len(C1.calcs) - Len(C.calcs)) |-> Len(C.calcs) + i]]

(***************************************************************************)
(* Collecting the results of a batch                                       *)
(***************************************************************************)
InSeq(x, seq) == \E i \in 1..Len(seq) : seq[i] = x

\* sort_with_uuids without the look-up: the nodes as they are
MutSortWithUuidsUnsorted(nodes, uuids) == [ok |-> TRUE, nodes |-> nodes]

\* sort_with_uuids taking the nodes by position: as many nodes as there are
\* uuids, from the front of the list
MutSortWithUuidsByPosition(nodes, uuids) ==
    IF Len(nodes) >= Len(uuids)
    THEN [ok |-> TRUE, nodes |-> SubSeq(nodes, 1, Len(uuids))]
    ELSE [ok |-> FALSE, nodes |-> << >>]

\* sort_with_uuids: for every uuid, in order, the node of nodes with that
\* uuid (a node is identified by its uuid); KeyError (ok = FALSE) when one
\* is not among the nodes.
SortWithUuids(nodes, uuids) ==
    IF \A i \in 1..Len(uuids) : InSeq(uuids[i], nodes)
    THEN [ok |-> TRUE,
          nodes |-> [i \in 1..Len(uuids) |->
                        CHOOSE n \in {nodes[j] : j \in 1..Len(nodes)} :
                            n = uuids[i]]]
    ELSE [ok |-> FALSE, nodes |-> << >>]

\* sort_pw_workchains
SortPwWorkchains(C) ==
    IF C.wc.pw_workchains = << >> THEN C
    ELSE LET r == SortWithUuids(C.wc.pw_workchains, C.wc.pw_workchains_uuids)
         IN  IF r.ok THEN [C EXCEPT !.wc.pw_workchains = r.nodes]
             ELSE Raise(C)

\* sort_kpoints_workchains
SortKpointsWorkchains(C) ==
    IF C.wc.kpoints_workchains = << >> THEN C
    ELSE LET r == SortWithUuids(C.wc.kpoints_workchains,
                                C.wc.kpoints_workchains_uuids)
         IN  IF r.ok THEN [C EXCEPT !.wc.kpoints_workchains = r.nodes]
             ELSE Raise(C)

\* The observables with the gap as find_bandgap returns it, None included
MutObservablesGapAsFound(workchain) ==
    IF workchain.exit_status # 0 THEN << None, None, None, None >>
    ELSE << Some(workchain.payload.energy), Some(workchain.payload.force),
            Some(0), workchain.payload.gap >>

\* The observables with the valence band maximum read from the outputs (the
\* total energy stands for a quantity that varies with the sample)
MutObservablesVbmFromOutputs(workchain) ==
    IF workchain.exit_status # 0 THEN << None, None, None, None >>
    ELSE << Some(workchain.payload.energy), Some(workchain.payload.force),
            Some(workchain.payload.energy),
            IF workchain.payload.gap = None THEN Some(0)
            ELSE workchain.payload.gap >>

\* The four observables recorded for a sub-workchain: total energy, maximum
\* force, 0.0 for the valence band maximum, and the gap (0.0 when none was
\* found); four None when it finished with a non-zero exit status.
Observables(workchain) ==
    IF workchain.exit_status # 0 THEN << None, None, None, None >>
    ELSE << Some(workchain.payload.energy), Some(workchain.payload.force),
            Some(0),
            IF workchain.payload.gap = None THEN Some(0)
            ELSE workchain.payload.gap >>

\* results_pw_conv_calc_no_block
ResultsPwConvCalcNoBlock(C, pw_iteration) ==
    IF C.exc THEN C
    ELSE IF pw_iteration > Len(C.wc.pw_workchains) THEN C
    ELSE IF pw_iteration > Len(C.settings.pwcutoff_list) THEN Raise(C)
    ELSE IF C.converge.pw_data.kind # "list" THEN Raise(C)
    ELSE LET workchain == C.calcs[C.wc.pw_workchains[pw_iteration]]
             pwcutoff == C.settings.pwcutoff_list[pw_iteration]
             C1 == IF workchain.exit_status # 0
                   THEN Report(C, "sample_failed") ELSE C
         IN [C1 EXCEPT !.converge.pw_data.rows =
                Append(@, << Some(pwcutoff) >> \o Observables(workchain))]

RECURSIVE SavePwLoop(_, _)
SavePwLoop(C, pw_id) ==
    IF C.exc \/ pw_id > Len(C.converge.pwcutoff_sampling) THEN C
    ELSE CHOOSE r \in
            { SavePwLoop(saved, pw_id + 1) :
                saved \in {ResultsPwConvCalcNoBlock(C, pw_id)} } : TRUE

\* save_pw_conv_many
SavePwConvMany(C) ==
    CHOOSE r \in {SavePwLoop(sorted, 1) : sorted \in {SortPwWorkchains(C)}} : TRUE

\* results_kpoints_conv_calc_no_block
ResultsKpointsConvCalcNoBlock(C, kpt_id) ==
    IF C.exc THEN C
    ELSE IF kpt_id > Len(C.wc.kpoints_workchains) THEN C
    ELSE IF kpt_id > Len(C.settings.kgrid_list) THEN Raise(C)
    ELSE IF C.converge.k_data.kind # "list" THEN Raise(C)
    ELSE LET workchain == C.calcs[C.wc.kpoints_workchains[kpt_id]]
             kgrid == C.settings.kgrid_list[kpt_id]
             C1 == IF workchain.exit_status # 0
                   THEN Report(C, "sample_failed") ELSE C
         IN [C1 EXCEPT !.converge.k_data.rows =
                Append(@, << Some(kgrid[1]), Some(kgrid[2]), Some(kgrid[3]),
                             C.settings.pwcutoff >> \o Observables(workchain))]

RECURSIVE SaveKpointsLoop(_, _)
SaveKpointsLoop(C, kpt_id) ==
    IF C.exc \/ kpt_id > Len(C.converge.kgrids) THEN C
    ELSE CHOOSE r \in
            { SaveKpointsLoop(saved, kpt_id + 1) :
                saved \in {ResultsKpointsConvCalcNoBlock(C, kpt_id)} } : TRUE

\* save_kpoints_conv_many
SaveKpointsConvMany(C) ==
    CHOOSE r \in {SaveKpointsLoop(sorted, 1) :
                      sorted \in {SortKpointsWorkchains(C)}} : TRUE

\* analyze_pw_conv_many falling back to the first row, pw_data[0][0]
MutAnalyzePwConvManyFirst(C, inp) ==
    LET C1 ==
          IF C.settings.pwcutoff_org # None THEN C
          ELSE IF C.converge.pw_data.kind # "list" THEN Raise(C)
          ELSE LET pw_data == C.converge.pw_data.rows
                   pwcutoff == CheckPwConverged(pw_data, inp.cutoff_type,
                                                inp.cutoff_value)
               IN  IF pwcutoff = None
                   THEN IF pw_data = << >> THEN Raise(C)
                        ELSE [Report(C, "pw_fallback") EXCEPT
                                !.settings.pwcutoff = pw_data[1][1]]
                   ELSE [C EXCEPT !.settings.pwcutoff = pwcutoff]
    IN  IF C1.exc THEN C1
        ELSE [C1 EXCEPT !.settings.pwcutoff_list = << >>,
                        !.settings.kgrid_list = << >>]

\* analyze_pw_conv_many
AnalyzePwConvMany(C, inp) ==
    LET C1 ==
          IF C.settings.pwcutoff_org # None THEN C
          ELSE IF C.converge.pw_data.kind # "list" THEN Raise(C)
          ELSE LET pw_data == C.converge.pw_data.rows
                   pwcutoff == CheckPwConverged(pw_data, inp.cutoff_type,
                                                inp.cutoff_value)
               IN  IF pwcutoff = None
                   THEN IF pw_data = << >> THEN Raise(C)
                        ELSE [Report(C, "pw_fallback") EXCEPT
                                !.settings.pwcutoff = pw_data[Len(pw_data)][1]]
                   ELSE [C EXCEPT !.settings.pwcutoff = pwcutoff]
    IN  IF C1.exc THEN C1
        ELSE [C1 EXCEPT !.settings.pwcutoff_list = << >>,
                        !.settings.kgrid_list = << >>]

(***************************************************************************)
(* Displaced and compressed variants                                       *)
(***************************************************************************)
\* reset_context_pw_kgrid_lists
ResetContextPwKgridLists(C) ==
    [C EXCEPT !.settings.pwcutoff_list = << >>,
              !.settings.kgrid_list = << >>]

\* The first block of init_disp_conv and init_comp_conv: the sweeps are
\* switched on again where they ran for the input structure.
ResetRunFlags(C) ==
    [C EXCEPT !.converge.run_pw_conv_calcs =
                  IF C.converge.run_pw_conv_calcs_org THEN TRUE ELSE @,
              !.converge.run_kpoints_conv_calcs =
                  IF C.converge.run_kpoints_conv_calcs_org THEN TRUE ELSE @]

\* _displace_structure: displaced_structure(ctx.converge.structure, ...)
DisplaceStructure(C) == [C.converge.structure EXCEPT !.displaced = TRUE]

\* _compress_structure: compressed_structure(ctx.converge.structure, ...);
\* ctx.converge.kpoints becomes a 1x1x1 mesh on the cell of the result.
CompressStructure(C) == [C.converge.structure EXCEPT !.compressed = TRUE]

\* The last block of init_disp_conv and init_comp_conv
DefaultKgridIfSwept(C, inp) ==
    IF C.settings.pwcutoff_org = None /\ ~C.settings.supplied_kmesh
       /\ C.settings.kgrid_org = None
    THEN SetDefaultKgrid(C, inp) ELSE C

\* init_disp_conv without the emptying of pw_data and k_data
MutInitDispConvKeepTables(C, inp) ==
    LET C1 == IF inp.displace
              THEN [ResetRunFlags(C) EXCEPT
                        !.converge.structure = DisplaceStructure(C)]
              ELSE C
        C2 == [C1 EXCEPT !.converge.pw_data_org = C.converge.pw_data,
                         !.converge.k_data_org = C.converge.k_data]
    IN  ResetContextPwKgridLists(DefaultKgridIfSwept(C2, inp))

\* init_disp_conv that displaces whatever the displace toggle is
MutInitDispConvAlways(C, inp) ==
    LET C1 == [ResetRunFlags(C) EXCEPT
                   !.converge.structure = DisplaceStructure(C)]
        C2 == [C1 EXCEPT !.converge.pw_data_org = C.converge.pw_data,
                         !.converge.k_data_org = C.converge.k_data,
                         !.converge.pw_data = TList(<< >>),
                         !.converge.k_data = TList(<< >>)]
    IN  ResetContextPwKgridLists(DefaultKgridIfSwept(C2, inp))

\* init_disp_conv
InitDispConv(C, inp) ==
    LET C1 == IF inp.displace
              THEN [ResetRunFlags(C) EXCEPT
                        !.converge.structure = DisplaceStructure(C)]
              ELSE C
        C2 == [C1 EXCEPT !.converge.pw_data_org = C.converge.pw_data,
                         !.converge.k_data_org = C.converge.k_data,
                         !.converge.pw_data = TList(<< >>),
                         !.converge.k_data = TList(<< >>)]
    IN  ResetContextPwKgridLists(DefaultKgridIfSwept(C2, inp))

\* init_comp_conv
InitCompConv(C, inp) ==
    LET C1 == IF inp.compress
              THEN [ResetRunFlags(C) EXCEPT
                        !.converge.structure = CompressStructure(C),
                        !.converge.kpoints =
                            [mesh |-> << 1, 1, 1 >>,
                             cell |-> CompressStructure(C)]]
              ELSE C
        C2 == IF inp.displace
              THEN [C1 EXCEPT
                        !.converge.pw_data_displacement = C.converge.pw_data,
                        !.converge.k_data_displacement = C.converge.k_data]
              ELSE C1
        C3 == [C2 EXCEPT !.converge.pw_data = TList(<< >>),
                         !.converge.k_data = TList(<< >>)]
    IN  DefaultKgridIfSwept(ResetContextPwKgridLists(C3), inp)

(***************************************************************************)
(* analyze_conv                                                            *)
(***************************************************************************)
\* Whether the subtraction loop of _analyze_conv_disp / _analyze_conv_comp
\* runs through: every row of data has a row of data_org at its index, and
\* no operand of a subtraction (the columns after `first`) is None.
DiffDefined(data, data_org, first) ==
    /\ data_org.kind = "list"
    /\ Len(data_org.rows) >= Len(data)
    /\ \A index \in 1..Len(data) : \A col \in (first + 1)..Len(data[index]) :
          /\ data[index][col] # None
          /\ col <= Len(data_org.rows[index])
          /\ data_org.rows[index][col] # None

\* The rows after the loop: data[index][first:] = [data[index][j + first] -
\* data_org[index][j + first] for j in range(len(data[0]) - first)]
DiffRows(data, data_org, first) ==
    [index \in 1..Len(data) |->
        [col \in 1..Len(data[index]) |->
            IF col <= first THEN data[index][col]
            ELSE Some(data[index][col][1] - data_org[index][col][1])]]

\* The threshold of the checker runs on the difference tables
MutRelCutoffValueAbsolute(inp) == inp.cutoff_value

RelCutoffValue(inp) == inp.cutoff_value_r

\* _analyze_conv_disp and _analyze_conv_comp, which differ in the tables
\* they read only: pw_var and k_var are the tables of the variant.  The
\* result holds the two values returned, the tables as the loops leave them
\* (they are modified in place) and whether the method raised.
AnalyzeConvRel(C, inp, pw_var, k_var) ==
    LET st == C.settings
        pw_org == C.converge.pw_data_org
        k_org == C.converge.k_data_org
        do_pw == st.pwcutoff_org = None
        do_k == st.kgrid_org = None /\ ~st.supplied_kmesh
        bad == \/ pw_var.kind # "list"
               \/ ~st.supplied_kmesh /\ k_var.kind # "list"
               \/ do_pw /\ ~DiffDefined(pw_var.rows, pw_org, 1)
               \/ do_k /\ ~DiffDefined(k_var.rows, k_org, 4)
               \* kgrid_diff_* is not assigned on this path
               \/ ~st.supplied_kmesh /\ st.kgrid_org # None
    IN  IF bad
        THEN [exc |-> TRUE, pwcutoff |-> None, kgrid |-> None,
              pw_data |-> pw_var, k_data |-> k_var]
        ELSE LET pw_diff == IF do_pw
                            THEN DiffRows(pw_var.rows, pw_org.rows, 1)
                            ELSE pw_var.rows
                 k_diff == IF do_k
                           THEN DiffRows(k_var.rows, k_org.rows, 4)
                           ELSE k_var.rows
             IN [exc |-> FALSE,
                 pwcutoff |->
                    IF do_pw
                    THEN CheckPwConverged(pw_diff, inp.cutoff_type,
                                          RelCutoffValue(inp))
                    ELSE st.pwcutoff_org,
                 kgrid |->
                    IF do_k
                    THEN CheckKpointsConverged(k_diff, inp.cutoff_type,
                                               RelCutoffValue(inp))
                    ELSE None,
                 pw_data |-> TList(pw_diff),
                 k_data |-> IF k_var.kind = "list" THEN TList(k_diff)
                            ELSE k_var]

\* _analyze_conv_disp
AnalyzeConvDisp(C, inp) ==
    AnalyzeConvRel(C, inp, C.converge.pw_data_displacement,
                   C.converge.k_data_displacement)

\* _analyze_conv_comp
AnalyzeConvComp(C, inp) ==
    AnalyzeConvRel(C, inp, C.converge.pw_data_comp, C.converge.k_data_comp)

SumSquares(kgrid) == kgrid[1] * kgrid[1] + kgrid[2] * kgrid[2]
                     + kgrid[3] * kgrid[3]

\* The reconciliation with min for max and the displacement grid always
MutAnalyzeConvDispCompFirst(C, pwcutoff_displacement, pwcutoff_comp, kgrid_displacement, kgrid_comp) ==
    IF \/ pwcutoff_displacement = None \/ pwcutoff_comp = None
       \/ C.settings.supplied_kmesh
       \/ kgrid_displacement = None \/ kgrid_comp = None
    THEN [exc |-> TRUE, pwcutoff |-> None, kgrid |-> None]
    ELSE [exc |-> FALSE,
          pwcutoff |-> pwcutoff_displacement,
          kgrid |-> kgrid_displacement]

\* _analyze_conv_disp_comp: max() of the two cutoffs and the grid with the
\* larger L2 norm.  max() raises on None, and so does the sum over a grid
\* that is None; with a supplied mesh kgrid is never assigned and the
\* return statement raises.
AnalyzeConvDispComp(C, pwcutoff_displacement, pwcutoff_comp, kgrid_displacement, kgrid_comp) ==
    IF \/ pwcutoff_displacement = None \/ pwcutoff_comp = None
       \/ C.settings.supplied_kmesh
       \/ kgrid_displacement = None \/ kgrid_comp = None
    THEN [exc |-> TRUE, pwcutoff |-> None, kgrid |-> None]
    ELSE [exc |-> FALSE,
          pwcutoff |-> Some(Max2(pwcutoff_displacement[1], pwcutoff_comp[1])),
          kgrid |-> IF SumSquares(kgrid_displacement) > SumSquares(kgrid_comp)
                    THEN kgrid_displacement ELSE kgrid_comp]

\* _analyze_conv returning no cutoff
MutAnalyzeConvPlainNoCutoff(C, inp) ==
    [exc |-> FALSE, pwcutoff |-> None, kgrid |-> None]

\* _analyze_conv: the cutoff already stored and the checker run on the
\* k-point table of the input structure (k_data_org; the checker reads
\* ctx.converge.k_data when that is None).
AnalyzeConvPlain(C, inp) ==
    LET k_data == IF C.converge.k_data_org.kind = "None"
                  THEN C.converge.k_data ELSE C.converge.k_data_org
    IN  IF C.settings.supplied_kmesh
        THEN [exc |-> FALSE, pwcutoff |-> C.settings.pwcutoff, kgrid |-> None]
        ELSE IF k_data.kind # "list"
        THEN [exc |-> TRUE, pwcutoff |-> None, kgrid |-> None]
        ELSE [exc |-> FALSE, pwcutoff |-> C.settings.pwcutoff,
              kgrid |-> CheckKpointsConverged(k_data.rows, inp.cutoff_type,
                                              inp.cutoff_value)]

\* _set_pwcutoff_and_kgrid
SetPwcutoffAndKgrid(C, pwcutoff, kgrid) ==
    IF C.exc THEN C
    ELSE IF ~C.settings.supplied_kmesh
    THEN [C EXCEPT !.settings.pwcutoff = pwcutoff, !.settings.kgrid = kgrid]
    ELSE [C EXCEPT !.settings.pwcutoff = pwcutoff]

\* What analyze_conv holds for a variant whose block did not run
NoRel == [exc |-> FALSE, pwcutoff |-> None, kgrid |-> None,
          pw_data |-> TUnset, k_data |-> TUnset]

\* A pair returned by one of the _analyze_conv* methods handed to
\* _set_pwcutoff_and_kgrid, unless the method raised
SetOrRaise(C, R) ==
    IF R.exc THEN Raise(C) ELSE SetPwcutoffAndKgrid(C, R.pwcutoff, R.kgrid)

\* analyze_conv, "if displace:" once _analyze_conv_disp has returned D (the
\* difference tables are written in place into the displacement tables)
WithDisp(C, D) ==
    [C |-> SetOrRaise([C EXCEPT !.converge.pw_data_displacement =
                                    IF D.exc THEN @ ELSE D.pw_data,
                                !.converge.k_data_displacement =
                                    IF D.exc THEN @ ELSE D.k_data], D),
     D |-> D, M |-> NoRel]

\* analyze_conv, "if displace:"
AnalyzeConvIfDisplace(C, inp) ==
    IF C.exc \/ ~inp.displace THEN [C |-> C, D |-> NoRel, M |-> NoRel]
    ELSE CHOOSE r \in {WithDisp(C, D) : D \in {AnalyzeConvDisp(C, inp)}} : TRUE

\* analyze_conv, "if compress:", its two assignments: pw_data_comp and
\* k_data_comp become the objects of pw_data and k_data
AliasComp(C) ==
    [C EXCEPT !.converge.pw_data_comp = C.converge.pw_data,
              !.converge.k_data_comp = C.converge.k_data]

\* analyze_conv, "if compress:" once _analyze_conv_comp has returned M (the
\* difference tables are written in place, into pw_data and k_data too)
WithComp(C, D, M) ==
    [C |-> SetOrRaise([C EXCEPT !.converge.pw_data_comp =
                                    IF M.exc THEN @ ELSE M.pw_data,
                                !.converge.k_data_comp =
                                    IF M.exc THEN @ ELSE M.k_data,
                                !.converge.pw_data =
                                    IF M.exc THEN @ ELSE M.pw_data,
                                !.converge.k_data =
                                    IF M.exc THEN @ ELSE M.k_data], M),
     D |-> D, M |-> M]

RunComp(C, D, inp) ==
    CHOOSE r \in {WithComp(C, D, M) : M \in {AnalyzeConvComp(C, inp)}} : TRUE

\* analyze_conv, "if compress:"
AnalyzeConvIfCompress(S, inp) ==
    IF S.C.exc \/ ~inp.compress THEN S
    ELSE CHOOSE r \in {RunComp(aliased, S.D, inp) :
                          aliased \in {AliasComp(S.C)}} : TRUE

\* analyze_conv, "if displace and compress:"
AnalyzeConvIfDispComp(S, inp) ==
    IF S.C.exc \/ ~(inp.displace /\ inp.compress) THEN S.C
    ELSE SetOrRaise(S.C, AnalyzeConvDispComp(S.C, S.D.pwcutoff, S.M.pwcutoff,
                                             S.D.kgrid, S.M.kgrid))

\* The last block of analyze_conv without its condition
MutAnalyzeConvIfNeitherAlways(C, inp) ==
    IF C.exc THEN C ELSE SetOrRaise(C, AnalyzeConvPlain(C, inp))

\* analyze_conv, "if not (displace or compress):"
AnalyzeConvIfNeither(C, inp) ==
    IF C.exc \/ inp.displace \/ inp.compress THEN C
    ELSE SetOrRaise(C, AnalyzeConvPlain(C, inp))

\* The first part of analyze_conv: the recommendation of the case at hand
AnalyzeConvCases(C, inp) ==
    CHOOSE r \in
        { AnalyzeConvIfNeither(reconciled, inp) :
            reconciled \in
              { AnalyzeConvIfDispComp(compressed, inp) :
                  compressed \in
                    { AnalyzeConvIfCompress(displaced, inp) :
                        displaced \in {AnalyzeConvIfDisplace(C, inp)} } } } :
        TRUE

\* The fallback of analyze_conv for the cutoff: the last row of pw_data_org
FallbackPwcutoff(C) ==
    IF C.exc \/ C.settings.pwcutoff # None THEN C
    ELSE IF C.converge.pw_data_org.kind # "list"
            \/ C.converge.pw_data_org.rows = << >>
    THEN Raise(C)
    ELSE LET rows == C.converge.pw_data_org.rows
         IN [Report(C, "pw_fallback") EXCEPT
                !.settings.pwcutoff = rows[Len(rows)][1]]

\* The fallback of analyze_conv for the grid without its report
MutFallbackKgridSilent(C) ==
    IF C.exc \/ C.settings.supplied_kmesh \/ C.settings.kgrid # None THEN C
    ELSE IF C.converge.k_data_org.kind # "list"
            \/ C.converge.k_data_org.rows = << >>
    THEN Raise(C)
    ELSE LET rows == C.converge.k_data_org.rows
             last == rows[Len(rows)]
         IN [C EXCEPT
                !.settings.kgrid = << last[1][1], last[2][1], last[3][1] >>]

\* The fallback of analyze_conv for the grid: the last row of k_data_org
FallbackKgrid(C) ==
    IF C.exc \/ C.settings.supplied_kmesh \/ C.settings.kgrid # None THEN C
    ELSE IF C.converge.k_data_org.kind # "list"
            \/ C.converge.k_data_org.rows = << >>
    THEN Raise(C)
    ELSE LET rows == C.converge.k_data_org.rows
             last == rows[Len(rows)]
         IN [Report(C, "k_fallback") EXCEPT
                !.settings.kgrid = << last[1][1], last[2][1], last[3][1] >>]

\* analyze_conv
AnalyzeConv(C, inp) ==
    CHOOSE r \in
        { FallbackKgrid(with_cutoff) :
            with_cutoff \in
              { FallbackPwcutoff(recommended) :
                  recommended \in {AnalyzeConvCases(C, inp)} } } : TRUE

\* store_conv_data_single stores a table that is not empty
Stored(table) == IF table.kind = "list" /\ table.rows # << >> THEN table
                 ELSE TUnset

\* store_conv and store_conv_data: the arrays of converge.data
StoreConv(C) ==
    LET cv == C.converge
        both(a, b) == a.kind # "unset" /\ b.kind # "unset"
    IN [C EXCEPT !.outputs.data_set = TRUE,
                 !.outputs.data =
        [pw_regular |-> Stored(cv.pw_data_org),
         kpoints_regular |-> Stored(cv.k_data_org),
         pw_displacement |->
            IF cv.pw_data_displacement.kind # "unset"
            THEN Stored(cv.pw_data_displacement) ELSE TUnset,
         kpoints_displacement |->
            IF both(cv.pw_data_displacement, cv.k_data_displacement)
            THEN Stored(cv.k_data_displacement) ELSE TUnset,
         pw_compression |->
            IF cv.pw_data_comp.kind # "unset"
            THEN Stored(cv.pw_data_comp) ELSE TUnset,
         kpoints_compression |->
            IF both(cv.pw_data_comp, cv.k_data_comp)
            THEN Stored(cv.k_data_comp) ELSE TUnset]]

(***************************************************************************)
(* The final calculation                                                   *)
(***************************************************************************)
\* init_converged without the update of encut
MutInitConvergedNoEncut(C, inp) ==
    LET C1 == [C EXCEPT !.cinputs.structure = OrigStructure]
        C2 == IF ~C.settings.supplied_kmesh
              THEN IF C.settings.kgrid = None THEN Raise(C1)
                   ELSE [C1 EXCEPT !.cinputs.kpoints =
                            [mesh |-> C.settings.kgrid,
                             cell |-> OrigStructure],
                            !.cinputs.kpoints_set = TRUE]
              ELSE [C1 EXCEPT !.cinputs.kpoints =
                        [mesh |-> inp.kpoints, cell |-> OrigStructure],
                        !.cinputs.kpoints_set = TRUE]
    IN  IF C2.exc THEN C2
        ELSE [C2 EXCEPT !.wc.running_kpoints = FALSE,
                        !.wc.running_pw = FALSE,
                        !.wc.set_input_nodes =
                            IF ~inp.testing THEN FALSE ELSE @]

\* init_converged without the reset of ctx.inputs.structure
MutInitConvergedKeepStructure(C, inp) ==
    LET C1 == UpdateInParamsEncut(C, C.settings.pwcutoff)
        C2 == IF ~C.settings.supplied_kmesh
              THEN IF C.settings.kgrid = None THEN Raise(C1)
                   ELSE [C1 EXCEPT !.cinputs.kpoints =
                            [mesh |-> C.settings.kgrid,
                             cell |-> OrigStructure],
                            !.cinputs.kpoints_set = TRUE]
              ELSE [C1 EXCEPT !.cinputs.kpoints =
                        [mesh |-> inp.kpoints, cell |-> OrigStructure],
                        !.cinputs.kpoints_set = TRUE]
    IN  IF C2.exc THEN C2
        ELSE [C2 EXCEPT !.wc.running_kpoints = FALSE,
                        !.wc.running_pw = FALSE,
                        !.wc.set_input_nodes =
                            IF ~inp.testing THEN FALSE ELSE @]

\* init_converged: the input structure, encut set to settings.pwcutoff,
\* and the mesh of settings.kgrid unless a mesh was supplied
InitConverged(C, inp) ==
    LET C1 == UpdateInParamsEncut(
                 [C EXCEPT !.cinputs.structure = OrigStructure],
                 C.settings.pwcutoff)
        C2 == IF ~C.settings.supplied_kmesh
              THEN IF C.settings.kgrid = None THEN Raise(C1)
                   ELSE [C1 EXCEPT !.cinputs.kpoints =
                            [mesh |-> C.settings.kgrid,
                             cell |-> OrigStructure],
                            !.cinputs.kpoints_set = TRUE]
              ELSE [C1 EXCEPT !.cinputs.kpoints =
                        [mesh |-> inp.kpoints, cell |-> OrigStructure],
                        !.cinputs.kpoints_set = TRUE]
    IN  IF C2.exc THEN C2
        ELSE [C2 EXCEPT !.wc.running_kpoints = FALSE,
                        !.wc.running_pw = FALSE,
                        !.wc.set_input_nodes =
                            IF ~inp.testing THEN FALSE ELSE @]

\* run_next_workchain: the key of the context the sub-workchain goes to
RunNextWorkchain(C) ==
    SubmitNextWorkchain(C,
        IF C.wc.running_pw THEN "pw_workchains"
        ELSE IF C.wc.running_kpoints THEN "kpoints_workchains"
        ELSE "workchains")

\* verify_next_workchain storing NO_ERROR whatever the exit status
MutVerifyNextWorkchainNoError(C) ==
    IF C.wc.workchains = << >>
    THEN [C |-> C, returned |-> ERROR_NO_CALLED_WORKCHAIN]
    ELSE [C |-> [C EXCEPT !.wc.exit_code = NO_ERROR], returned |-> NO_ERROR]

\* verify_next_workchain: the exit code it stores and returns
VerifyNextWorkchain(C) ==
    IF C.wc.workchains = << >>
    THEN [C |-> C, returned |-> ERROR_NO_CALLED_WORKCHAIN]
    ELSE LET workchain == C.calcs[C.wc.workchains[Len(C.wc.workchains)]]
             code == IF workchain.exit_status = 0 THEN NO_ERROR
                     ELSE workchain.exit_status
         IN [C |-> [C EXCEPT !.wc.exit_code = code], returned |-> code]

\* results
Results(C) ==
    IF C.wc.workchains = << >> THEN Raise(C)
    ELSE [C EXCEPT !.outputs.exposed = TRUE]

(***************************************************************************)
(* The inputs explored                                                     *)
(***************************************************************************)
\* The most sub-workchains of one run that fail or return another payload
\* than Payload0
MaxVaried == 1

Configs ==
    [displace : BOOLEAN, compress : BOOLEAN,
     pwcutoff : {None, Some(300)}, encut : {None},
     kpoints : {None, << 4, 4, 4 >>}, kgrid : {None},
     testing : {FALSE, TRUE},
     cutoff_type : {"energy"},
     cutoff_value : {1}, cutoff_value_r : {1, 2},
     pwcutoff_start : {200}, pwcutoff_step : {50}, pwcutoff_samples : {1, 3},
     k_coarse : {6}, k_dense : {2}, k_samples : {2}, k_spacing : {4},
     relax_perform : {TRUE}, conv_relax : {FALSE}]

\* A reconciliation input: what one variant recommends
NoRec == [pwcutoff |-> None, kgrid |-> None]

\* The function under test, its arguments and what it returned
NewChk(kind, table, cutoff_type, cutoff_value, d, m) ==
    [kind |-> kind, table |-> table, cutoff_type |-> cutoff_type,
     cutoff_value |-> cutoff_value, d |-> d, m |-> m,
     result |-> None, kgrid |-> None, exc |-> FALSE, done |-> FALSE]

IdleChk == [NewChk("idle", << >>, "energy", 0, NoRec, NoRec) EXCEPT
                !.done = TRUE]

Init ==
    /\ inputs \in Configs
    /\ pc = [step |-> "initialize", phase |-> "org"]
    /\ status = "running"
    /\ settings = InitContext(inputs).settings
    /\ converge = InitContext(inputs).converge
    /\ cinputs = InitContext(inputs).cinputs
    /\ wc = InitContext(inputs).wc
    /\ calcs = << >>
    /\ reports = {}
    /\ outputs = InitContext(inputs).outputs
    /\ chk = IdleChk
    /\ permuted = FALSE

(***************************************************************************)
(* The outline                                                             *)
(***************************************************************************)
Goto(step, phase) == [step |-> step, phase |-> phase]

\* A step of the outline that does not wait for the awaitables
MutNoPendingAlways == TRUE

NoPending == \A i \in 1..Len(calcs) : calcs[i].state # "pending"

\* A step of the outline runs when the process is running and every
\* sub-workchain handed to to_context has resolved.
AtStep(step) == status = "running" /\ pc.step = step /\ NoPending

\* The nodes of the batch with these uuids, in the order in which the
\* engine appended them to the list of ctx
Completed(nodes, uuids) == SelectSeq(nodes, LAMBDA n : InSeq(n, uuids))

\* Whether the step about to run collects a batch that completed in another
\* order than it was submitted in
OutOfOrder ==
    \/ /\ pc.step = "save_pw_conv_many"
       /\ Completed(wc.pw_workchains, wc.pw_workchains_uuids)
              # wc.pw_workchains_uuids
    \/ /\ pc.step = "save_kpoints_conv_many"
       /\ Completed(wc.kpoints_workchains, wc.kpoints_workchains_uuids)
              # wc.kpoints_workchains_uuids

\* The context after a step, and the step that follows it unless it raised
Commit(C, next) ==
    \E after \in {C} :
        /\ settings' = after.settings
        /\ converge' = after.converge
        /\ cinputs' = after.cinputs
        /\ wc' = after.wc
        /\ calcs' = after.calcs
        /\ reports' = after.reports
        /\ outputs' = after.outputs
        /\ status' = IF after.exc THEN "excepted" ELSE status
        /\ pc' = IF after.exc THEN pc ELSE next
        /\ permuted' = OutOfOrder
        /\ UNCHANGED << inputs, chk >>

\* The predicates of the if_ blocks of the outline, by block and phase
Predicate(step, phase) ==
    LET run_pw == converge.run_pw_conv_calcs
        run_k == converge.run_kpoints_conv_calcs
        on == IF phase = "disp" THEN inputs.displace
              ELSE IF phase = "comp" THEN inputs.compress ELSE TRUE
    IN  IF step = "if_run_conv_calcs" THEN run_k \/ run_pw
        ELSE IF step = "if_run_pw" THEN run_pw /\ on
        ELSE IF step = "if_analyze_pw" THEN on
        ELSE run_k /\ on

\* The step after an if_ block's predicate with the compressed round placed
\* before the displaced one
MutBranchCompressedFirst(step, phase, value) ==
    IF step = "if_run_conv_calcs"
    THEN IF value THEN Goto("if_run_pw", "org")
         ELSE Goto("init_converged", "final")
    ELSE IF step = "if_run_pw"
    THEN IF value THEN Goto("run_pw_conv_many", phase)
         ELSE IF phase = "org" THEN Goto("analyze_pw_conv_many", phase)
         ELSE Goto("if_analyze_pw", phase)
    ELSE IF step = "if_analyze_pw"
    THEN IF value THEN Goto("analyze_pw_conv_many", phase)
         ELSE Goto("if_run_kpoints", phase)
    ELSE IF value THEN Goto("run_kpoints_conv_many", phase)
         ELSE IF phase = "org" THEN Goto("init_comp_conv", "comp")
         ELSE IF phase = "comp" THEN Goto("init_disp_conv", "disp")
         ELSE Goto("analyze_conv", "final")

\* The step after an if_ block's predicate, by its value
Branch(step, phase, value) ==
    IF step = "if_run_conv_calcs"
    THEN IF value THEN Goto("if_run_pw", "org")
         ELSE Goto("init_converged", "final")
    ELSE IF step = "if_run_pw"
    THEN IF value THEN Goto("run_pw_conv_many", phase)
         ELSE IF phase = "org" THEN Goto("analyze_pw_conv_many", phase)
         ELSE Goto("if_analyze_pw", phase)
    ELSE IF step = "if_analyze_pw"
    THEN IF value THEN Goto("analyze_pw_conv_many", phase)
         ELSE Goto("if_run_kpoints", phase)
    ELSE IF value THEN Goto("run_kpoints_conv_many", phase)
         ELSE IF phase = "org" THEN Goto("init_disp_conv", "disp")
         ELSE IF phase = "disp" THEN Goto("init_comp_conv", "comp")
         ELSE Goto("analyze_conv", "final")

IfSteps == {"if_run_conv_calcs", "if_run_pw", "if_analyze_pw",
            "if_run_kpoints"}

\* An if_ of the outline: its predicate is called and the block is entered
\* or skipped.
if_ ==
    /\ status = "running" /\ pc.step \in IfSteps /\ NoPending
    /\ pc' = Branch(pc.step, pc.phase, Predicate(pc.step, pc.phase))
    /\ permuted' = FALSE
    /\ UNCHANGED << inputs, status, settings, converge, cinputs, wc, calcs,
                    reports, outputs, chk >>

initialize ==
    /\ AtStep("initialize")
    /\ Commit(DoInitialize(inputs), Goto("if_run_conv_calcs", "org"))

run_pw_conv_many ==
    /\ AtStep("run_pw_conv_many")
    /\ Commit(RunPwConvMany(Ctx, inputs), Goto("save_pw_conv_many", pc.phase))

save_pw_conv_many ==
    /\ AtStep("save_pw_conv_many")
    /\ Commit(SavePwConvMany(Ctx),
              IF pc.phase = "org" THEN Goto("analyze_pw_conv_many", "org")
              ELSE Goto("if_analyze_pw", pc.phase))

analyze_pw_conv_many ==
    /\ AtStep("analyze_pw_conv_many")
    /\ Commit(AnalyzePwConvMany(Ctx, inputs), Goto("if_run_kpoints", pc.phase))

run_kpoints_conv_many ==
    /\ AtStep("run_kpoints_conv_many")
    /\ Commit(RunKpointsConvMany(Ctx, inputs),
              Goto("save_kpoints_conv_many", pc.phase))

save_kpoints_conv_many ==
    /\ AtStep("save_kpoints_conv_many")
    /\ Commit(SaveKpointsConvMany(Ctx),
              Branch("if_run_kpoints", pc.phase, FALSE))

init_disp_conv ==
    /\ AtStep("init_disp_conv")
    /\ Commit(InitDispConv(Ctx, inputs), Goto("if_run_pw", "disp"))

init_comp_conv ==
    /\ AtStep("init_comp_conv")
    /\ Commit(InitCompConv(Ctx, inputs), Goto("if_run_pw", "comp"))

analyze_conv ==
    /\ AtStep("analyze_conv")
    /\ Commit(AnalyzeConv(Ctx, inputs), Goto("store_conv", "final"))

store_conv ==
    /\ AtStep("store_conv")
    /\ Commit(StoreConv(Ctx), Goto("init_converged", "final"))

init_converged ==
    /\ AtStep("init_converged")
    /\ Commit(InitConverged(Ctx, inputs), Goto("init_next_workchain", "final"))

init_next_workchain ==
    /\ AtStep("init_next_workchain")
    /\ Commit(InitNextWorkchain(Ctx, inputs),
              Goto("run_next_workchain", "final"))

run_next_workchain ==
    /\ AtStep("run_next_workchain")
    /\ Commit(RunNextWorkchain(Ctx), Goto("verify_next_workchain", "final"))

\* A step that returns a non-zero exit code ends the work chain with it
verify_next_workchain ==
    /\ AtStep("verify_next_workchain")
    /\ LET r == VerifyNextWorkchain(Ctx)
       IN  IF r.returned # NO_ERROR
           THEN Commit([r.C EXCEPT !.outputs.exit_status = Some(r.returned)],
                       Goto("done", "final"))
           ELSE Commit(r.C, Goto("results", "final"))

results ==
    /\ AtStep("results")
    /\ Commit(Results(Ctx), Goto("finalize", "final"))

\* finalize returns ctx.exit_code
finalize ==
    /\ AtStep("finalize")
    /\ Commit([Ctx EXCEPT !.outputs.exit_status = Some(wc.exit_code)],
              Goto("done", "final"))

\* What the engine may resolve a pending sub-workchain to
Outcomes ==
    [exit_status : {0}, payload : Payloads]
        \cup [exit_status : {401}, payload : {Payload0}]

Varied(c) ==
    c.state = "finished" /\ (c.exit_status # 0 \/ c.payload # Payload0)

NumVaried == Cardinality({i \in 1..Len(calcs) : Varied(calcs[i])})

\* The engine resolves one pending sub-workchain: it finishes with an exit
\* status and outputs, and the awaitable appends it to the list of ctx it
\* was registered for.
Resolve ==
    /\ status = "running"
    /\ \E i \in 1..Len(calcs) :
          /\ calcs[i].state = "pending"
          /\ \E o \in Outcomes :
                /\ (o.exit_status # 0 \/ o.payload # Payload0)
                      => NumVaried < MaxVaried
                /\ calcs' = [calcs EXCEPT ![i].state = "finished",
                                          ![i].exit_status = o.exit_status,
                                          ![i].payload = o.payload]
                /\ wc' = [wc EXCEPT ![calcs[i].key] = Append(@, i)]
    /\ permuted' = FALSE
    /\ UNCHANGED << inputs, pc, status, settings, converge, cinputs,
                    reports, outputs, chk >>

Next ==
    \/ initialize
    \/ if_
    \/ run_pw_conv_many
    \/ save_pw_conv_many
    \/ analyze_pw_conv_many
    \/ run_kpoints_conv_many
    \/ save_kpoints_conv_many
    \/ init_disp_conv
    \/ init_comp_conv
    \/ analyze_conv
    \/ store_conv
    \/ init_converged
    \/ init_next_workchain
    \/ run_next_workchain
    \/ verify_next_workchain
    \/ results
    \/ finalize
    \/ Resolve

Spec == Init /\ [][Next]_vars


(***************************************************************************)
(* The checkers and the reconciliation on their own: the arguments are     *)
(* drawn by the initial state and one step applies the function.           *)
(***************************************************************************)
MaxLen == 3

\* The observables of a row: energy, force, vbm (always 0.0) and gap of a
\* sample, or of the difference of two samples; four None for a failed one
MetricRows ==
    { << Some(0), Some(0), Some(0), Some(0) >>,
      << Some(1), Some(2), Some(0), Some(1) >>,
      << Some(3), Some(2), Some(0), Some(0) >>,
      << Some(0 - 1), Some(1), Some(0), Some(2) >>,
      << None, None, None, None >> }

Thresholds == {1, 2, 3}

\* The columns before the observables in row i of a table of the kind
Independent(kind, i) ==
    IF kind = "pw" THEN << Some(200 + 50 * (i - 1)) >>
    ELSE << Some(i + 1), Some(i + 1), Some(i + 1), Some(300) >>

SweepTables(kind) ==
    { [i \in 1..Len(rows) |-> Independent(kind, i) \o rows[i]] :
        rows \in UNION { [1..n -> MetricRows] : n \in 0..MaxLen } }

Recommendations ==
    [pwcutoff : {None, Some(350), Some(400)},
     kgrid : {None, << 4, 4, 4 >>, << 6, 6, 6 >>, << 6, 4, 4 >>,
              << 4, 4, 6 >>}]

CheckerCases ==
    { NewChk(kind, table, cutoff_type, cutoff_value, NoRec, NoRec) :
        kind \in {"pw"}, table \in SweepTables("pw"),
        cutoff_type \in CutoffTypes, cutoff_value \in Thresholds }
    \cup
    { NewChk(kind, table, cutoff_type, cutoff_value, NoRec, NoRec) :
        kind \in {"k"}, table \in SweepTables("k"),
        cutoff_type \in CutoffTypes, cutoff_value \in Thresholds }
    \cup
    { NewChk("reconcile", << >>, "energy", 1, d, m) :
        d \in Recommendations, m \in Recommendations }

\* The work chain is as constructed, with both variants switched on; a
\* variant recommends no grid when a mesh is supplied.
InitChecker ==
    /\ inputs \in {c \in Configs : /\ c.displace /\ c.compress
                                   /\ c.pwcutoff = None /\ ~c.testing
                                   /\ c.cutoff_value_r = 1
                                   /\ c.pwcutoff_samples = 3}
    /\ pc = [step |-> "initialize", phase |-> "org"]
    /\ status = "running"
    /\ settings = InitContext(inputs).settings
    /\ converge = InitContext(inputs).converge
    /\ cinputs = InitContext(inputs).cinputs
    /\ wc = InitContext(inputs).wc
    /\ calcs = << >>
    /\ reports = {}
    /\ outputs = InitContext(inputs).outputs
    /\ permuted = FALSE
    /\ chk \in CheckerCases
    /\ chk.kind # "reconcile" => inputs.kpoints = None
    /\ inputs.kpoints # None => chk.d.kgrid = None /\ chk.m.kgrid = None

Returned(value) ==
    /\ chk' = [chk EXCEPT !.result = value, !.done = TRUE]
    /\ UNCHANGED << inputs, pc, status, settings, converge, cinputs, wc,
                    calcs, reports, outputs, permuted >>

check_pw_converged ==
    /\ chk.kind = "pw" /\ ~chk.done
    /\ Returned(CheckPwConverged(chk.table, chk.cutoff_type,
                                 chk.cutoff_value))

check_kpoints_converged ==
    /\ chk.kind = "k" /\ ~chk.done
    /\ Returned(CheckKpointsConverged(chk.table, chk.cutoff_type,
                                      chk.cutoff_value))

\* The "if displace and compress:" block of analyze_conv on the pairs that
\* _analyze_conv_disp and _analyze_conv_comp returned
analyze_conv_disp_comp ==
    /\ chk.kind = "reconcile" /\ ~chk.done
    /\ LET C == AnalyzeConvIfDispComp(
                    [C |-> Ctx,
                     D |-> [NoRel EXCEPT !.pwcutoff = chk.d.pwcutoff,
                                         !.kgrid = chk.d.kgrid],
                     M |-> [NoRel EXCEPT !.pwcutoff = chk.m.pwcutoff,
                                         !.kgrid = chk.m.kgrid]],
                    inputs)
       IN  chk' = [chk EXCEPT !.result = C.settings.pwcutoff,
                              !.kgrid = C.settings.kgrid,
                              !.exc = C.exc, !.done = TRUE]
    /\ UNCHANGED << inputs, pc, status, settings, converge, cinputs, wc,
                    calcs, reports, outputs, permuted >>

NextChecker ==
    \/ check_pw_converged
    \/ check_kpoints_converged
    \/ analyze_conv_disp_comp

SpecChecker == InitChecker /\ [][NextChecker]_vars

(***************************************************************************)
(* Properties.  What a checker should return is stated here from the       *)
(* indices of the table, without the filtered copy and the loop of the     *)
(* code.                                                                   *)
(***************************************************************************)
\* The column of a metric in a table whose observables start after `first`
MetricColumn(first, cutoff_type) ==
    first + (CASE cutoff_type = "energy" -> 1 [] cutoff_type = "forces" -> 2
               [] cutoff_type = "vbm" -> 3 [] cutoff_type = "gap" -> 4)

\* The rows that hold no None
Kept(t) == {i \in 1..Len(t) : \A c \in 1..Len(t[i]) : t[i][c] # None}

\* The kept row before kept row i
PrevKept(t, i) ==
    CHOOSE j \in Kept(t) : j < i /\ \A k \in Kept(t) : k < i => k <= j

\* The kept rows whose metric is within the threshold of the kept row before
Satisfying(t, col, threshold) ==
    LET kept == Kept(t)
    IN  {i \in kept :
            \E j \in kept :
                /\ j < i /\ \A k \in kept : k < i => k <= j
                /\ Abs(t[i][col][1] - t[j][col][1]) < threshold}

\* The first of them, 0 when there is none
FirstSatisfying(t, col, threshold) ==
    LET within == Satisfying(t, col, threshold)
    IN  IF within = {} THEN 0
        ELSE CHOOSE i \in within : \A j \in within : i <= j

ExpectedPw(t, cutoff_type, threshold) ==
    LET i == FirstSatisfying(t, MetricColumn(1, cutoff_type), threshold)
    IN  IF i = 0 THEN None ELSE t[i][1]

ExpectedK(t, cutoff_type, threshold) ==
    LET i == FirstSatisfying(t, MetricColumn(4, cutoff_type), threshold)
    IN  IF i = 0 THEN None ELSE << t[i][1][1], t[i][2][1], t[i][3][1] >>

\* C1: for every table, metric and threshold, each checker returns the
\* cutoff (the k-grid) of the first row, among the rows without None, whose
\* metric differs from that of the row before it by strictly less than the
\* threshold, and None when there is no such row (fewer than two rows are
\* left, or no pair is within the threshold).
C1_FirstSatisfyingPair ==
    /\ chk.done /\ chk.kind = "pw"
          => chk.result = ExpectedPw(chk.table, chk.cutoff_type,
                                     chk.cutoff_value)
    /\ chk.done /\ chk.kind = "k"
          => chk.result = ExpectedK(chk.table, chk.cutoff_type,
                                    chk.cutoff_value)

\* C1: a checker has returned the cutoff of the third row of a table whose
\* second row was dropped, for a pair whose first row's delta to a later
\* row is not looked at
C1_Witness ==
    /\ chk.done /\ chk.kind = "pw" /\ Len(chk.table) = 3
    /\ Kept(chk.table) = {1, 3}
    /\ chk.result = chk.table[3][1]

\* The sub-workchains by what they were submitted for
SweepCalcs ==
    {i \in 1..Len(calcs) :
        calcs[i].key \in {"pw_workchains", "kpoints_workchains"}}

FinalCalcs == {i \in 1..Len(calcs) : calcs[i].key = "workchains"}

FailedCalc(i) == calcs[i].state = "finished" /\ calcs[i].exit_status # 0

NoFailedSample == \A i \in SweepCalcs : ~FailedCalc(i)

\* The search has returned from its last step with exit code 0
Completed0 == pc.step = "done" /\ outputs.exit_status = Some(0)

\* The cutoff sweep (the k-point sweep) runs: no cutoff (no grid or mesh)
\* was supplied
PwSwept == inputs.pwcutoff = None /\ inputs.encut = None

KSwept == inputs.kpoints = None /\ inputs.kgrid = None

SampledCutoff(i) == inputs.pwcutoff_start + i * inputs.pwcutoff_step

LastRow(t) == t[Len(t)]

\* The recommendation of a cutoff table, with the fallback to the last row
\* of the table of the input structure
CutoffOrFallback(t, threshold) ==
    IF ExpectedPw(t, inputs.cutoff_type, threshold) = None
    THEN LastRow(converge.pw_data_org.rows)[1]
    ELSE ExpectedPw(t, inputs.cutoff_type, threshold)

KgridOrFallback(t, threshold) ==
    IF ExpectedK(t, inputs.cutoff_type, threshold) = None
    THEN << LastRow(converge.k_data_org.rows)[1][1],
            LastRow(converge.k_data_org.rows)[2][1],
            LastRow(converge.k_data_org.rows)[3][1] >>
    ELSE ExpectedK(t, inputs.cutoff_type, threshold)

\* Where the sweep of the input structure converged, or fell back to
BaselineCutoff ==
    CutoffOrFallback(converge.pw_data_org.rows, inputs.cutoff_value)

BaselineKgrid == KgridOrFallback(converge.k_data_org.rows, inputs.cutoff_value)

\* C2: a sub-workchain of a sweep that finishes with a non-zero exit status
\* never aborts the search.  Stated for the searches that run at most one
\* of the two variants: none of them is excepted once a sample has failed.
C2_FailedSampleNeverAborts ==
    /\ \E i \in SweepCalcs : FailedCalc(i)
    /\ ~(inputs.displace /\ inputs.compress)
    => status # "excepted"

\* The difference tables of the variants hold a sweep that recommends
\* nothing (the tables are those analyze_conv has written the differences
\* into)
VariantRecommendsNone ==
    \/ /\ PwSwept
       /\ \E t \in {converge.pw_data_displacement, converge.pw_data_comp} :
             /\ t.kind = "list"
             /\ ExpectedPw(t.rows, inputs.cutoff_type,
                           inputs.cutoff_value_r) = None
    \/ /\ KSwept
       /\ \E t \in {converge.k_data_displacement, converge.k_data_comp} :
             /\ t.kind = "list"
             /\ ExpectedK(t.rows, inputs.cutoff_type,
                          inputs.cutoff_value_r) = None

\* C3: whatever the displace and compress toggles are, a checker run that
\* returns None for a recommendation does not end the search abnormally.
\* Stated for the searches without a failed sample and without a supplied
\* mesh: analyze_conv does not raise when a difference sweep recommends
\* nothing.
C3_NoneNeverAborts ==
    /\ pc.step = "analyze_conv"
    /\ NoFailedSample /\ KSwept
    /\ VariantRecommendsNone
    => status # "excepted"

RawObs(c) ==
    << c.payload.energy, c.payload.force, 0,
       IF c.payload.gap = None THEN 0 ELSE c.payload.gap[1] >>

RecordedObs(c) ==
    IF c.exit_status # 0 THEN << None, None, None, None >>
    ELSE << Some(c.payload.energy), Some(c.payload.force), Some(0),
            Some(IF c.payload.gap = None THEN 0 ELSE c.payload.gap[1]) >>

\* C5: in whatever order the sub-workchains of a batch complete, row i of
\* the table that save_pw_conv_many (save_kpoints_conv_many) fills pairs
\* the cutoff (the grid) of the i-th submitted sub-workchain of the batch
\* with the observables of that sub-workchain.
C5_RowsInSubmissionOrder ==
    pc.phase # "final" =>
        /\ converge.pw_data.kind = "list" /\ converge.pw_data.rows # << >>
              => /\ Len(converge.pw_data.rows) = Len(wc.pw_workchains_uuids)
                 /\ \A i \in 1..Len(converge.pw_data.rows) :
                       converge.pw_data.rows[i] =
                           << calcs[wc.pw_workchains_uuids[i]].encut >>
                           \o RecordedObs(calcs[wc.pw_workchains_uuids[i]])
        /\ converge.k_data.kind = "list" /\ converge.k_data.rows # << >>
              => /\ Len(converge.k_data.rows)
                        = Len(wc.kpoints_workchains_uuids)
                 /\ \A i \in 1..Len(converge.k_data.rows) :
                       LET c == calcs[wc.kpoints_workchains_uuids[i]]
                           row == converge.k_data.rows[i]
                       IN  /\ << row[1][1], row[2][1], row[3][1] >>
                                  = c.kpoints.mesh
                           /\ SubSeq(row, 5, 8) = RecordedObs(c)

\* C5: save_pw_conv_many has just filled a table of three rows, two of
\* them different, from a batch that completed out of submission order
C5_Witness ==
    /\ permuted /\ pc.step = "analyze_pw_conv_many" /\ status = "running"
    /\ Len(converge.pw_data.rows) = 3
    /\ SubSeq(converge.pw_data.rows[1], 2, 5)
          # SubSeq(converge.pw_data.rows[2], 2, 5)

SumSq(g) == g[1] * g[1] + g[2] * g[2] + g[3] * g[3]

\* C6: when both variants recommend a cutoff and a grid, the reconciled
\* cutoff is the larger of the two cutoffs and the reconciled grid is the
\* one of the two with the larger Euclidean norm, the grid of the
\* compression when the norms are equal; displaced 400/(4,4,4) and
\* compressed 350/(6,6,6) give 400 and (6,6,6).
C6_Reconciliation ==
    /\ chk.done /\ chk.kind = "reconcile"
    /\ chk.d.pwcutoff # None /\ chk.m.pwcutoff # None
    /\ chk.d.kgrid # None /\ chk.m.kgrid # None
    => /\ ~chk.exc
       /\ chk.result \in {chk.d.pwcutoff, chk.m.pwcutoff}
       /\ chk.result[1] >= chk.d.pwcutoff[1]
       /\ chk.result[1] >= chk.m.pwcutoff[1]
       /\ chk.kgrid \in {chk.d.kgrid, chk.m.kgrid}
       /\ SumSq(chk.kgrid) >= SumSq(chk.d.kgrid)
       /\ SumSq(chk.kgrid) >= SumSq(chk.m.kgrid)
       /\ SumSq(chk.d.kgrid) = SumSq(chk.m.kgrid) => chk.kgrid = chk.m.kgrid
       /\ /\ chk.d = [pwcutoff |-> Some(400), kgrid |-> << 4, 4, 4 >>]
          /\ chk.m = [pwcutoff |-> Some(350), kgrid |-> << 6, 6, 6 >>]
          => chk.result = Some(400) /\ chk.kgrid = << 6, 6, 6 >>

\* C6: the reconciliation has run on two different grids of the same norm
\* and two different cutoffs
C6_Witness ==
    /\ chk.done /\ chk.kind = "reconcile" /\ ~chk.exc
    /\ chk.d = [pwcutoff |-> Some(400), kgrid |-> << 6, 4, 4 >>]
    /\ chk.m = [pwcutoff |-> Some(350), kgrid |-> << 4, 4, 6 >>]
    /\ chk.result = Some(400) /\ chk.kgrid = << 4, 4, 6 >>

\* analyze_conv has returned: its recommendation is in settings
Analyzed == pc.step = "store_conv" /\ status = "running"

\* The tables of the one variant that ran, as analyze_conv leaves them
VariantPwTable ==
    IF inputs.displace THEN converge.pw_data_displacement
    ELSE converge.pw_data_comp

VariantKTable ==
    IF inputs.displace THEN converge.k_data_displacement
    ELSE converge.k_data_comp

\* C7: with displace and compress both off analyze_conv adopts the
\* recommendation of the sweeps of the input structure; with exactly one of
\* them on it adopts the recommendation of the difference sweep of that
\* variant.
C7_CaseSelection ==
    /\ Analyzed /\ ~inputs.displace /\ ~inputs.compress
          => /\ PwSwept => settings.pwcutoff = BaselineCutoff
             /\ KSwept => settings.kgrid = BaselineKgrid
    /\ Analyzed /\ inputs.displace # inputs.compress
          => /\ PwSwept =>
                   settings.pwcutoff =
                       CutoffOrFallback(VariantPwTable.rows,
                                        inputs.cutoff_value_r)
             /\ KSwept =>
                   settings.kgrid =
                       KgridOrFallback(VariantKTable.rows,
                                       inputs.cutoff_value_r)

\* C7: analyze_conv has adopted, with one variant on, a cutoff that is not
\* the one of the sweep of the input structure
C7_Witness ==
    /\ Analyzed /\ inputs.displace # inputs.compress /\ PwSwept
    /\ settings.pwcutoff # BaselineCutoff

\* The sub-workchains of a sweep (key) on a structure, in submission order
CalcsOf(key, compressed) ==
    SelectSeq([i \in 1..Len(calcs) |-> i],
              LAMBDA i : /\ calcs[i].key = key
                         /\ calcs[i].structure # OrigStructure
                         /\ calcs[i].structure.compressed = compressed)

BaselineCalcsOf(key) ==
    SelectSeq([i \in 1..Len(calcs) |-> i],
              LAMBDA i : /\ calcs[i].key = key
                         /\ calcs[i].structure = OrigStructure)

\* A function on 1..n as the tuple of its values
Rows(f) == SubSeq(f, 1, Len(f))

\* The observables of the n-th sample of a variant minus those of the n-th
\* sample of the input structure
ObsDifference(key, compressed, n) ==
    LET v == RawObs(calcs[CalcsOf(key, compressed)[n]])
        b == RawObs(calcs[BaselineCalcsOf(key)[n]])
    IN  << Some(v[1] - b[1]), Some(v[2] - b[2]), Some(v[3] - b[3]),
           Some(v[4] - b[4]) >>

PwDifferences(compressed) ==
    Rows([n \in 1..Len(CalcsOf("pw_workchains", compressed)) |->
            << calcs[CalcsOf("pw_workchains", compressed)[n]].encut >>
            \o ObsDifference("pw_workchains", compressed, n)])

KDifferences(compressed) ==
    Rows([n \in 1..Len(CalcsOf("kpoints_workchains", compressed)) |->
            LET c == calcs[CalcsOf("kpoints_workchains", compressed)[n]]
            IN  << Some(c.kpoints.mesh[1]), Some(c.kpoints.mesh[2]),
                   Some(c.kpoints.mesh[3]), c.encut >>
                \o ObsDifference("kpoints_workchains", compressed, n)])

\* The variant's own table as the save filled it
PwRaw(compressed) ==
    Rows([n \in 1..Len(CalcsOf("pw_workchains", compressed)) |->
            << calcs[CalcsOf("pw_workchains", compressed)[n]].encut >>
            \o RecordedObs(calcs[CalcsOf("pw_workchains", compressed)[n]])])

\* C8: what a variant recommends is what the checker finds, with the
\* threshold cutoff_value_r, in the table of the differences between the
\* observables of the variant and those of the input structure at the same
\* index; nothing else enters the operating point analyze_conv adopts (the
\* larger cutoff and the larger grid when both variants ran).
C8_DifferenceSweep ==
    /\ Analyzed /\ inputs.displace # inputs.compress
          => /\ PwSwept =>
                   settings.pwcutoff =
                       CutoffOrFallback(PwDifferences(inputs.compress),
                                        inputs.cutoff_value_r)
             /\ KSwept =>
                   settings.kgrid =
                       KgridOrFallback(KDifferences(inputs.compress),
                                       inputs.cutoff_value_r)
    /\ Analyzed /\ inputs.displace /\ inputs.compress
          => /\ PwSwept =>
                   settings.pwcutoff[1] =
                       Max2(ExpectedPw(PwDifferences(FALSE),
                                       inputs.cutoff_type,
                                       inputs.cutoff_value_r)[1],
                            ExpectedPw(PwDifferences(TRUE),
                                       inputs.cutoff_type,
                                       inputs.cutoff_value_r)[1])
             /\ KSwept =>
                   settings.kgrid \in
                       {ExpectedK(KDifferences(FALSE), inputs.cutoff_type,
                                  inputs.cutoff_value_r),
                        ExpectedK(KDifferences(TRUE), inputs.cutoff_type,
                                  inputs.cutoff_value_r)}

\* C8: analyze_conv has adopted the cutoff of a variant's difference sweep
\* where the checker finds another cutoff in the variant's own table with
\* the threshold cutoff_value
C8_Witness ==
    /\ Analyzed /\ inputs.displace # inputs.compress /\ PwSwept
    /\ inputs.cutoff_value # inputs.cutoff_value_r
    /\ ExpectedPw(PwRaw(inputs.compress), inputs.cutoff_type,
                  inputs.cutoff_value) # None
    /\ ExpectedPw(PwDifferences(inputs.compress), inputs.cutoff_type,
                  inputs.cutoff_value_r) # None
    /\ settings.pwcutoff
          # ExpectedPw(PwRaw(inputs.compress), inputs.cutoff_type,
                       inputs.cutoff_value)

\* The value of the metric the sweep looks at for a sub-workchain
MetricOf(c) ==
    RawObs(c)[CASE inputs.cutoff_type = "energy" -> 1
                [] inputs.cutoff_type = "forces" -> 2
                [] inputs.cutoff_type = "vbm" -> 3
                [] inputs.cutoff_type = "gap" -> 4]

\* The 0-based indices i >= 1 of the samples of the first cutoff sweep whose
\* metric is within cutoff_value of that of sample i - 1 (sample i is the
\* sub-workchain submitted (i + 1)-th)
ConvergedSamples ==
    {i \in 1..(inputs.pwcutoff_samples - 1) :
        Abs(MetricOf(calcs[i + 1]) - MetricOf(calcs[i]))
            < inputs.cutoff_value}

\* C9: with displace and compress off, no cutoff supplied and no failed
\* sample, the encut of the final calculation is pwcutoff_start + i *
\* pwcutoff_step for the smallest i >= 1 whose metric differs from that of
\* sample i - 1 by less than cutoff_value.
C9_FinalEncut ==
    \A f \in FinalCalcs :
        /\ ~inputs.displace /\ ~inputs.compress /\ PwSwept
        /\ NoFailedSample
        /\ ConvergedSamples # {}
        => \E i \in ConvergedSamples :
              /\ \A j \in ConvergedSamples : i <= j
              /\ calcs[f].encut = Some(SampledCutoff(i))

\* C9: the final calculation was handed the third sampled cutoff, the first
\* pair of samples being too far apart
C9_Witness ==
    \E f \in FinalCalcs :
        /\ ~inputs.displace /\ ~inputs.compress /\ PwSwept
        /\ NoFailedSample
        /\ 1 \notin ConvergedSamples /\ 2 \in ConvergedSamples
        /\ calcs[f].encut = Some(SampledCutoff(2))

\* analyze_pw_conv_many has just run on the table in converge.pw_data
PwAnalyzed ==
    /\ pc.step = "if_run_kpoints" /\ status = "running" /\ PwSwept
    /\ \/ pc.phase = "org"
       \/ pc.phase = "disp" /\ inputs.displace
       \/ pc.phase = "comp" /\ inputs.compress

\* C10: when no pair of consecutive successful samples of a cutoff sweep is
\* within the threshold (or fewer than two samples succeeded),
\* analyze_pw_conv_many adopts the cutoff of the last sample of the sweep,
\* whatever the number of samples.
C10_FallbackToLastSample ==
    /\ PwAnalyzed
    /\ FirstSatisfying(converge.pw_data.rows,
                       MetricColumn(1, inputs.cutoff_type),
                       inputs.cutoff_value) = 0
    => settings.pwcutoff = Some(SampledCutoff(inputs.pwcutoff_samples - 1))

\* C10: analyze_pw_conv_many has adopted the last of three cutoffs after a
\* sweep none of whose samples failed and no pair of which is within the
\* threshold
C10_Witness ==
    /\ PwAnalyzed /\ pc.phase = "org" /\ inputs.pwcutoff_samples = 3
    /\ NoFailedSample
    /\ FirstSatisfying(converge.pw_data.rows,
                       MetricColumn(1, inputs.cutoff_type),
                       inputs.cutoff_value) = 0
    /\ settings.pwcutoff = Some(SampledCutoff(2))


\* The table without its row p
WithoutRow(t, p) == SubSeq(t, 1, p - 1) \o SubSeq(t, p + 1, Len(t))

\* The rows of a failed sample: the four observables, the last four columns,
\* are None
FailedRows(t) ==
    {p \in 1..Len(t) : \A c \in (Len(t[p]) - 3)..Len(t[p]) : t[p][c] = None}

\* C11: a row whose observables are all None, at whatever position of the
\* table, does not change what _check_pw_converged and
\* _check_kpoints_converged return: the result on the table is the result on
\* the table without that row.
C11_FailedRowNeutral ==
    /\ chk.done /\ chk.kind = "pw"
          => \A p \in FailedRows(chk.table) :
                chk.result = CheckPwConverged(WithoutRow(chk.table, p),
                                              chk.cutoff_type,
                                              chk.cutoff_value)
    /\ chk.done /\ chk.kind = "k"
          => \A p \in FailedRows(chk.table) :
                chk.result = CheckKpointsConverged(WithoutRow(chk.table, p),
                                                   chk.cutoff_type,
                                                   chk.cutoff_value)

\* C11: _check_kpoints_converged has returned a grid for a table of three
\* rows whose middle row is a failed sample
C11_Witness ==
    /\ chk.done /\ chk.kind = "k" /\ Len(chk.table) = 3
    /\ FailedRows(chk.table) = {2}
    /\ chk.result # None
    /\ chk.result = CheckKpointsConverged(WithoutRow(chk.table, 2),
                                          chk.cutoff_type, chk.cutoff_value)

\* The sub-workchains of the cutoff sweeps and of the k-point sweeps
CutoffSweepCalcs == {i \in 1..Len(calcs) : calcs[i].key = "pw_workchains"}

KSweepCalcs == {i \in 1..Len(calcs) : calcs[i].key = "kpoints_workchains"}

\* run_next_workchain has run
FinalSubmitted ==
    pc.step \in {"verify_next_workchain", "results", "finalize", "done"}

\* The search has ended, by its last step or by a step that raised
Ended == status = "excepted" \/ pc.step = "done"

\* C12: with a cutoff supplied no sub-workchain of a cutoff sweep is ever
\* submitted; with a k-point mesh supplied no sub-workchain of a k-point
\* sweep is ever submitted and settings.kgrid is None in every state; with
\* both supplied no sweep sub-workchain is submitted at all and the search
\* submits exactly one sub-workchain, the final one, with the supplied
\* cutoff and mesh: never more than one, and one by the time it ends.
C12_SweepOnlyUnsuppliedAxis ==
    /\ ~PwSwept => CutoffSweepCalcs = {}
    /\ inputs.kpoints # None => KSweepCalcs = {} /\ settings.kgrid = None
    /\ ~PwSwept /\ inputs.kpoints # None
          => /\ SweepCalcs = {}
             /\ Len(calcs) <= 1
             /\ \A i \in 1..Len(calcs) :
                   /\ calcs[i].key = "workchains"
                   /\ calcs[i].encut = inputs.pwcutoff
                   /\ calcs[i].kpoints.mesh = inputs.kpoints
                   /\ calcs[i].structure = OrigStructure
             /\ FinalSubmitted \/ Ended => Len(calcs) = 1

\* Both difference sweeps of the cutoff recommend a cutoff (the tables are
\* those analyze_conv has written the differences into)
BothVariantsRecommendCutoff ==
    \A t \in {converge.pw_data_displacement, converge.pw_data_comp} :
        /\ t.kind = "list"
        /\ ExpectedPw(t.rows, inputs.cutoff_type, inputs.cutoff_value_r)
              # None

\* C13: with a k-point mesh supplied and displace and compress both on,
\* analyze_conv completes: when no sample failed and both difference sweeps
\* recommend a cutoff, the step does not raise (it adopts the larger cutoff,
\* leaves settings.kgrid None and the search goes on to the final
\* calculation).
C13_ReconcileWithSuppliedMesh ==
    /\ inputs.kpoints # None /\ inputs.displace /\ inputs.compress
    /\ PwSwept /\ NoFailedSample
    /\ pc.step = "analyze_conv"
    /\ BothVariantsRecommendCutoff
    => status # "excepted"

\* The batch a sub-workchain belongs to: the list of ctx it goes to and the
\* structure it runs on
BatchOf(i) == << calcs[i].key, calcs[i].structure >>

Pending == {i \in 1..Len(calcs) : calcs[i].state = "pending"}

\* The rows held by the sweep tables (pw_data_comp and k_data_comp are other
\* names of pw_data and k_data, which are counted)
SavedRows ==
    Len(converge.pw_data_org.rows) + Len(converge.k_data_org.rows)
    + Len(converge.pw_data_displacement.rows)
    + Len(converge.k_data_displacement.rows)
    + Len(converge.pw_data.rows) + Len(converge.k_data.rows)

\* analyze_conv, the one step that calls _check_kpoints_converged, has
\* returned
AnalyzeConvHasRun ==
    (PwSwept \/ KSwept) /\ pc.phase = "final" /\ pc.step # "analyze_conv"

\* The cutoff batch of the displaced structure has been submitted
DisplacedCutoffBatchSubmitted ==
    \E i \in CutoffSweepCalcs : calcs[i].structure.displaced

\* Whenever a batch is in flight, every sub-workchain of another batch has
\* finished and has its row in a sweep table
PreviousBatchesCollected ==
    \A i \in Pending :
        /\ \A j \in 1..Len(calcs) :
              BatchOf(j) # BatchOf(i) => calcs[j].state = "finished"
        /\ SavedRows
              = Cardinality({j \in 1..Len(calcs) : BatchOf(j) # BatchOf(i)})

\* C14 as the spec states it: no batch is submitted until the batch before
\* it has been collected and analyzed; in particular the cutoff batch of the
\* displaced structure is not submitted before the k-point sweep of the
\* input structure has been run through the convergence checker.
C14_NoBatchBeforeAnalysis ==
    /\ PreviousBatchesCollected
    /\ DisplacedCutoffBatchSubmitted /\ KSwept => AnalyzeConvHasRun

\* C14 as the code has it: no batch is submitted until every sub-workchain
\* of the batches before it has finished and has been saved into its sweep
\* table, but the k-point sweeps are not run through the checker between
\* batches: _check_kpoints_converged runs in analyze_conv only, after the
\* last batch of the sweeps, so no sweep sub-workchain is submitted or
\* pending once it has run.
C14_BatchesSequential ==
    /\ PreviousBatchesCollected
    /\ \A i \in Pending : i \in SweepCalcs => ~AnalyzeConvHasRun
    /\ AnalyzeConvHasRun
          => \A i \in SweepCalcs : calcs[i].state = "finished"

\* C14: the cutoff batch of the displaced structure is in flight, one of
\* its three sub-workchains resolved, after the k-point sweep of the input
\* structure was saved and before analyze_conv has run
C14_Witness ==
    /\ KSwept /\ PwSwept /\ DisplacedCutoffBatchSubmitted
    /\ Len(converge.k_data_org.rows) = 3
    /\ Cardinality(Pending) = 2 /\ Pending \subseteq CutoffSweepCalcs
    /\ \A i \in Pending : calcs[i].structure.displaced
    /\ ~AnalyzeConvHasRun

\* The sub-workchains of a sweep (key) on structure s, in submission order
CalcsOn(key, s) ==
    SelectSeq([i \in 1..Len(calcs) |-> i],
              LAMBDA i : calcs[i].key = key /\ calcs[i].structure = s)

\* The table a cutoff sweep on structure s records: the cutoff and the
\* observables of its sub-workchains, in submission order
PwRawOn(s) ==
    CHOOSE t \in {Rows([n \in 1..Len(batch) |->
                          << calcs[batch[n]].encut >>
                          \o RecordedObs(calcs[batch[n]])]) :
                    batch \in {CalcsOn("pw_workchains", s)}} : TRUE

\* The cutoff chosen for the variant on structure s: the one supplied, or
\* what the checker finds in the cutoff sweep of s with cutoff_value, or the
\* last cutoff sampled when it finds none
ChosenCutoff(s) ==
    IF ~PwSwept
    THEN (IF inputs.encut # None THEN inputs.encut ELSE inputs.pwcutoff)
    ELSE CHOOSE chosen \in
             {IF found = None
              THEN Some(SampledCutoff(inputs.pwcutoff_samples - 1))
              ELSE found :
                found \in {ExpectedPw(t, inputs.cutoff_type,
                                      inputs.cutoff_value) :
                              t \in {PwRawOn(s)}}} : TRUE

\* Every row of a k-point table holds the cutoff in its cutoff column
CutoffColumnIs(table, cutoff) ==
    \A n \in 1..Len(table.rows) : table.rows[n][4] = cutoff

\* The structures a k-point sweep ran on or a k-point table is kept for
KSweepStructures ==
    {calcs[i].structure : i \in KSweepCalcs}
    \cup (IF converge.k_data.rows # << >> THEN {converge.structure} ELSE {})
    \cup (IF converge.k_data_org.rows # << >> THEN {OrigStructure} ELSE {})
    \cup (IF converge.k_data_displacement.rows # << >>
          THEN {[OrigStructure EXCEPT !.displaced = TRUE]} ELSE {})

\* C15: every sub-workchain of a k-point sweep is submitted with encut equal
\* to the cutoff chosen for its structure by the cutoff analysis before it
\* (converged, fallen back to, or supplied), and that cutoff is in the
\* cutoff column of every row of the k-point tables.
C15_KSweepAtChosenCutoff ==
    \A s \in KSweepStructures :
        \A chosen \in {ChosenCutoff(s)} :
            /\ \A i \in KSweepCalcs :
                  calcs[i].structure = s => calcs[i].encut = chosen
            /\ s = converge.structure
                  => CutoffColumnIs(converge.k_data, chosen)
            /\ s = OrigStructure
                  => CutoffColumnIs(converge.k_data_org, chosen)
            /\ s.displaced /\ ~s.compressed
                  => CutoffColumnIs(converge.k_data_displacement, chosen)

\* C15: the k-point sweep of a displaced structure was saved with the
\* second of three cutoffs, which is not the last cutoff sampled, while the
\* k-point sweep of the input structure used the last one
C15_Witness ==
    /\ PwSwept /\ inputs.pwcutoff_samples = 3 /\ inputs.displace
    /\ pc.step = "init_comp_conv" /\ Len(converge.k_data.rows) = 3
    /\ \A n \in 1..3 : converge.k_data.rows[n][4] = Some(SampledCutoff(1))
    /\ \A n \in 1..Len(converge.k_data_org.rows) :
          converge.k_data_org.rows[n][4] = Some(SampledCutoff(2))
    /\ \E i \in KSweepCalcs :
          calcs[i].structure.displaced /\ calcs[i].encut = Some(SampledCutoff(1))

\* The structures the sweeps run on
SweepStructures == {calcs[i].structure : i \in SweepCalcs}

\* C16: run_pw_conv_many submits the whole batch in one step: in every
\* state a cutoff batch that has a sub-workchain has one for each of the
\* pwcutoff_samples cutoffs, the i-th with encut pwcutoff_start +
\* i * pwcutoff_step; and while a sub-workchain of the batch is pending no
\* result of the batch has been read: its table is still empty.
C16_WholeBatchAtOnce ==
    /\ \A s \in SweepStructures :
          \A batch \in {CalcsOn("pw_workchains", s)} :
              batch # << >>
                 => /\ Len(batch) = inputs.pwcutoff_samples
                    /\ \A n \in 1..Len(batch) :
                          calcs[batch[n]].encut = Some(SampledCutoff(n - 1))
    /\ Pending \cap CutoffSweepCalcs # {} => converge.pw_data.rows = << >>

\* C16: the three sub-workchains of the cutoff batch of the compressed
\* structure have been submitted with 200, 250 and 300 eV; the last of
\* them has resolved, the first has not, and nothing has been read
C16_Witness ==
    /\ inputs.compress /\ pc.phase = "comp" /\ pc.step = "save_pw_conv_many"
    /\ Len(CalcsOn("pw_workchains", converge.structure)) = 3
    /\ LET batch == CalcsOn("pw_workchains", converge.structure)
       IN  /\ calcs[batch[1]].state = "pending"
           /\ calcs[batch[3]].state = "finished"
           /\ calcs[batch[1]].encut = Some(200)
           /\ calcs[batch[2]].encut = Some(250)
           /\ calcs[batch[3]].encut = Some(300)
    /\ converge.pw_data.rows = << >>

\* The table a k-point sweep on structure s records, in submission order
KRawOn(s) ==
    CHOOSE t \in {Rows([n \in 1..Len(batch) |->
                          LET c == calcs[batch[n]]
                          IN  << Some(c.kpoints.mesh[1]),
                                 Some(c.kpoints.mesh[2]),
                                 Some(c.kpoints.mesh[3]), c.encut >>
                              \o RecordedObs(c)]) :
                    batch \in {CalcsOn("kpoints_workchains", s)}} : TRUE

\* The structures of the variants
DisplacedStructure == [OrigStructure EXCEPT !.displaced = TRUE]

CompressedStructure == [displaced |-> inputs.displace, compressed |-> TRUE]

\* A table, where it holds rows, holds the rows recorded for the sweep of
\* the kind (key) on structure s
HoldsRecorded(table, key, s) ==
    table.kind = "list" /\ table.rows # << >>
        => table.rows = (IF key = "pw_workchains" THEN PwRawOn(s)
                         ELSE KRawOn(s))

\* The tables of the input structure, in the context and in converge.data,
\* hold what was recorded
BaselineRowsUnmodified ==
    /\ HoldsRecorded(converge.pw_data_org, "pw_workchains", OrigStructure)
    /\ HoldsRecorded(converge.k_data_org, "kpoints_workchains", OrigStructure)
    /\ HoldsRecorded(outputs.data.pw_regular, "pw_workchains", OrigStructure)
    /\ HoldsRecorded(outputs.data.kpoints_regular, "kpoints_workchains",
                     OrigStructure)

\* C17: a row recorded in a sweep table is not modified by a later step:
\* the tables of the displaced and of the compressed structure, in the
\* context and as written to converge.data, hold the cutoff (the grid) and
\* the observables of the sub-workchains of their sweep as the save
\* recorded them.
C17_RecordedRowsUnmodified ==
    /\ BaselineRowsUnmodified
    /\ HoldsRecorded(converge.pw_data_displacement, "pw_workchains",
                     DisplacedStructure)
    /\ HoldsRecorded(converge.k_data_displacement, "kpoints_workchains",
                     DisplacedStructure)
    /\ HoldsRecorded(outputs.data.pw_displacement, "pw_workchains",
                     DisplacedStructure)
    /\ HoldsRecorded(outputs.data.kpoints_displacement, "kpoints_workchains",
                     DisplacedStructure)
    /\ HoldsRecorded(outputs.data.pw_compression, "pw_workchains",
                     CompressedStructure)
    /\ HoldsRecorded(outputs.data.kpoints_compression, "kpoints_workchains",
                     CompressedStructure)

\* The columns before the observables in a table of the sweep of the kind
IndependentColumns(key) == IF key = "pw_workchains" THEN 1 ELSE 4

\* What C18 says of the table of the sweep (key) on structure s, of which
\* `samples` were submitted: one row per sample, in order; a failed sample
\* has its independent columns and four None, a successful one has no None
\* and 0 for a gap that was not found.
OneRowPerSample(table, key, s, samples) ==
    table.kind = "list" /\ table.rows # << >>
    => \A batch \in {CalcsOn(key, s)}, first \in {IndependentColumns(key)} :
           /\ Len(table.rows) = samples
           /\ Len(batch) = samples
           /\ \A n \in 1..Len(table.rows) :
                LET row == table.rows[n]
                    c == calcs[batch[n]]
                IN  /\ Len(row) = first + 4
                    /\ key = "pw_workchains"
                          => row[1] = Some(SampledCutoff(n - 1))
                    /\ key = "kpoints_workchains"
                          => /\ SubSeq(row, 1, 3)
                                   = << Some(converge.kgrids[n][1]),
                                        Some(converge.kgrids[n][2]),
                                        Some(converge.kgrids[n][3]) >>
                             /\ row[4] # None
                    /\ c.exit_status # 0
                          => SubSeq(row, first + 1, first + 4)
                                = << None, None, None, None >>
                    /\ c.exit_status = 0
                          => /\ \A col \in (first + 1)..(first + 4) :
                                   row[col] # None
                             /\ c.payload.gap = None
                                   => row[first + 4] = Some(0)

\* C18: after a sweep's results are saved its table has exactly one row per
\* submitted sample, in sampling order; the row of a failed sample keeps the
\* cutoff (the grid and the cutoff) and has None for the four observables;
\* the row of a successful sample holds no None, a gap that was not found
\* being stored as 0, so the checker does not drop it.
C18_OneRowPerSample ==
    /\ pc.phase # "final"
          => /\ OneRowPerSample(converge.pw_data, "pw_workchains",
                                converge.structure, inputs.pwcutoff_samples)
             /\ OneRowPerSample(converge.k_data, "kpoints_workchains",
                                converge.structure, Len(converge.kgrids))
    /\ OneRowPerSample(converge.pw_data_org, "pw_workchains", OrigStructure,
                       inputs.pwcutoff_samples)
    /\ OneRowPerSample(converge.k_data_org, "kpoints_workchains",
                       OrigStructure, Len(converge.kgrids))

\* C18: save_kpoints_conv_many has recorded three rows, the second for a
\* failed sample, the others for samples without a gap
C18_Witness ==
    /\ pc.phase # "final" /\ Len(converge.k_data.rows) = 3
    /\ Kept(converge.k_data.rows) = {1, 3}
    /\ FailedRows(converge.k_data.rows) = {2}
    /\ converge.k_data.rows[2][1] # None /\ converge.k_data.rows[2][4] # None
    /\ converge.k_data.rows[1][8] = Some(0)
    /\ LET batch == CalcsOn("kpoints_workchains", converge.structure)
       IN  /\ Len(batch) = 3
           /\ calcs[batch[2]].exit_status # 0
           /\ calcs[batch[1]].payload.gap = None

\* The cutoff tables and the k-point tables, in the context and in
\* converge.data
CutoffTables ==
    {converge.pw_data, converge.pw_data_org, converge.pw_data_displacement,
     converge.pw_data_comp, outputs.data.pw_regular,
     outputs.data.pw_displacement, outputs.data.pw_compression}

KpointTables ==
    {converge.k_data, converge.k_data_org, converge.k_data_displacement,
     converge.k_data_comp, outputs.data.kpoints_regular,
     outputs.data.kpoints_displacement, outputs.data.kpoints_compression}

DecidingCutoff ==
    IF ~inputs.displace /\ ~inputs.compress
    THEN CHOOSE found \in {ExpectedPw(t, inputs.cutoff_type,
                                      inputs.cutoff_value) :
                              t \in {PwRawOn(OrigStructure)}} : TRUE
    ELSE CHOOSE found \in {ExpectedPw(t, inputs.cutoff_type,
                                      inputs.cutoff_value_r) :
                              t \in {PwDifferences(inputs.compress)}} : TRUE

DecidingKgrid ==
    IF ~inputs.displace /\ ~inputs.compress
    THEN CHOOSE found \in {ExpectedK(t, inputs.cutoff_type,
                                     inputs.cutoff_value) :
                              t \in {KRawOn(OrigStructure)}} : TRUE
    ELSE CHOOSE found \in {ExpectedK(t, inputs.cutoff_type,
                                     inputs.cutoff_value_r) :
                              t \in {KDifferences(inputs.compress)}} : TRUE

\* C20: when the final calculation has been submitted and the checker run
\* that decides the cutoff (the grid) found none, so that the value of the
\* final calculation is the fallback, the last cutoff (grid) sampled, the
\* warning of the fallback has been reported.  The reports counted are those
\* made whatever the verbose flag is.
C20_FallbackWarned ==
    \A f \in FinalCalcs :
        ~(inputs.displace /\ inputs.compress)
        => /\ PwSwept /\ DecidingCutoff = None
                => /\ "pw_fallback" \in reports
                   /\ calcs[f].encut
                         = Some(SampledCutoff(inputs.pwcutoff_samples - 1))
           /\ KSwept /\ DecidingKgrid = None
                => /\ "k_fallback" \in reports
                   /\ settings.kgrid = converge.kgrids[Len(converge.kgrids)]
                   /\ ~inputs.testing
                         => calcs[f].kpoints.mesh = settings.kgrid

\* C20: the final calculation was submitted with the last grid sampled
\* after a k-point sweep in which the checker found no grid, the cutoff
\* sweep having converged: only the warning for the grid was reported
C20_Witness ==
    \E f \in FinalCalcs :
        /\ ~inputs.displace /\ ~inputs.compress /\ PwSwept /\ KSwept
        /\ inputs.pwcutoff_samples = 3
        /\ DecidingCutoff # None /\ DecidingKgrid = None
        /\ reports = {"k_fallback"}
        /\ calcs[f].kpoints.mesh = << 6, 6, 6 >>

\* A step of the outline raised: the process is excepted and no later step
\* of the outline runs
Abnormal == status = "excepted"

\* C21: whenever the search has terminated abnormally after the rows of at
\* least one sweep were saved, converge.data has been attached with the
\* tables saved so far.
C21_PartialTablesOutput ==
    Abnormal /\ SavedRows > 0
        => /\ outputs.data_set
           /\ outputs.data.pw_regular = Stored(converge.pw_data_org)
           /\ outputs.data.kpoints_regular = Stored(converge.k_data_org)

\* C22: the records of submitted identities are append-only: no step
\* removes an identity from ctx.pw_workchains_uuids or from
\* ctx.kpoints_workchains_uuids, so an identity recorded for an earlier
\* batch is still recorded after a later batch has been submitted.
C22_UuidsAppendOnly ==
    [][/\ \A n \in 1..Len(wc.pw_workchains_uuids) :
             InSeq(wc.pw_workchains_uuids[n], wc.pw_workchains_uuids')
       /\ \A n \in 1..Len(wc.kpoints_workchains_uuids) :
             InSeq(wc.kpoints_workchains_uuids[n],
                   wc.kpoints_workchains_uuids')]_vars

\* 1 for a toggle that is on, 0 for one that is off
Toggle(b) == IF b THEN 1 ELSE 0

\* The number of sub-workchains of one round of sweeps: the cutoff samples
\* when the cutoff is swept and the unique k-point grids when the grid is
SweepsPerStructure ==
    (IF PwSwept THEN inputs.pwcutoff_samples ELSE 0)
    + (IF KSwept THEN Len(converge.kgrids) ELSE 0)

\* C23: with displace off no sub-workchain is ever submitted on a displaced
\* structure and with compress off none on a compressed one; when the
\* outline has run to its end the sweep sub-workchains submitted number
\* (1 + [displace] + [compress]) times the cutoff samples (no cutoff
\* supplied) plus the unique k-point grids (no grid supplied).
C23_VariantsOnlyWhenToggled ==
    /\ \A i \in 1..Len(calcs) :
          /\ calcs[i].structure.displaced => inputs.displace
          /\ calcs[i].structure.compressed => inputs.compress
    /\ pc.step = "done"
          => Cardinality(SweepCalcs)
                = (1 + Toggle(inputs.displace) + Toggle(inputs.compress))
                  * SweepsPerStructure

\* C23: a search with displace on and compress off has run to its end with
\* three cutoff samples and three k-point grids on each of two structures
C23_Witness ==
    /\ pc.step = "done" /\ inputs.displace /\ ~inputs.compress
    /\ PwSwept /\ KSwept /\ inputs.pwcutoff_samples = 3
    /\ Len(converge.kgrids) = 3
    /\ Cardinality(SweepCalcs) = 12
    /\ Cardinality({i \in SweepCalcs : calcs[i].structure.displaced}) = 6

\* The input structure with the volume change applied and nothing else
CompressedOriginal == [OrigStructure EXCEPT !.compressed = TRUE]

\* C24: the structure of the compressed sweeps is the input structure with
\* the volume change applied, also when the displaced sweeps ran before:
\* ctx.converge.structure, once compressed, and the structure of every
\* sub-workchain submitted on a compressed structure carry no displacement.
C24_CompressedFromOriginal ==
    /\ converge.structure.compressed
          => converge.structure = CompressedOriginal
    /\ \A i \in 1..Len(calcs) :
          calcs[i].structure.compressed
              => calcs[i].structure = CompressedOriginal

\* C25: with testing off there is at most one final sub-workchain, and it
\* is submitted on the input structure, with encut equal to the cutoff the
\* analysis settled on (settings.pwcutoff) and with the mesh the analysis
\* settled on (settings.kgrid) on the cell of the input structure when no
\* mesh was supplied, with the supplied k-points otherwise, whatever
\* variants were run.
C25_FinalAtOperatingPoint ==
    ~inputs.testing
    => /\ Cardinality(FinalCalcs) <= 1
       /\ \A f \in FinalCalcs :
             /\ calcs[f].structure = OrigStructure
             /\ calcs[f].encut = settings.pwcutoff
             /\ calcs[f].encut # None
             /\ calcs[f].kpoints.cell = OrigStructure
             /\ calcs[f].kpoints.mesh
                   = (IF inputs.kpoints = None THEN settings.kgrid
                      ELSE inputs.kpoints)

\* C25: after sweeps on a displaced and on a compressed structure the final
\* sub-workchain was submitted on the input structure with a cutoff and a
\* mesh that the sweeps chose
C25_Witness ==
    /\ ~inputs.testing /\ inputs.displace /\ inputs.compress
    /\ PwSwept /\ KSwept /\ inputs.pwcutoff_samples = 3
    /\ converge.structure = [displaced |-> TRUE, compressed |-> TRUE]
    /\ \E f \in FinalCalcs :
          /\ calcs[f].structure = OrigStructure
          /\ calcs[f].encut = Some(250)
          /\ calcs[f].kpoints.mesh = settings.kgrid
          /\ settings.kgrid # << 1, 1, 1 >>

\* C26: relax.perform is off in the parameters of every sweep sub-workchain
\* unless converge.relax is set, and in the parameters of the final
\* sub-workchain it is what the user requested.
C26_RelaxOffDuringSweeps ==
    /\ \A i \in SweepCalcs :
          calcs[i].relax_perform = inputs.conv_relax
    /\ \A f \in FinalCalcs :
          calcs[f].relax_perform = inputs.relax_perform

(***************************************************************************)
(* Progress                                                                *)
(***************************************************************************)
\* The engine runs the next step of the outline once the awaitables of the
\* step before have resolved, and every sub-workchain submitted resolves.
FairSpec == Spec /\ WF_vars(Resolve) /\ WF_vars(Next)

\* The steps of a round of sweeps, in the order of the outline
RoundSteps ==
    << "if_run_pw", "run_pw_conv_many", "save_pw_conv_many",
       "if_analyze_pw", "analyze_pw_conv_many", "if_run_kpoints",
       "run_kpoints_conv_many", "save_kpoints_conv_many" >>

\* The steps after the sweeps, in the order of the outline
FinalSteps ==
    << "analyze_conv", "store_conv", "init_converged",
       "init_next_workchain", "run_next_workchain",
       "verify_next_workchain", "results", "finalize", "done" >>

IndexIn(seq, x) == CHOOSE n \in 1..Len(seq) : seq[n] = x

\* The position of a step in the outline
Position(p) ==
    IF p.step = "initialize" THEN 0
    ELSE IF p.step = "if_run_conv_calcs" THEN 1
    ELSE IF p.step = "init_disp_conv" THEN 20
    ELSE IF p.step = "init_comp_conv" THEN 40
    ELSE IF p.phase = "org" THEN 10 + IndexIn(RoundSteps, p.step)
    ELSE IF p.phase = "disp" THEN 30 + IndexIn(RoundSteps, p.step)
    ELSE IF p.phase = "comp" THEN 50 + IndexIn(RoundSteps, p.step)
    ELSE 60 + IndexIn(FinalSteps, p.step)

\* The phase of the search a step belongs to: 1 cutoff baseline, 2 k-point
\* baseline, 3 cutoff displaced, 4 k-point displaced, 5 cutoff compressed,
\* 6 k-point compressed, 7 reconciliation, 8 final calculation (0 before
\* the first sweep)
SearchPhase(p) ==
    IF p.step \in {"initialize", "if_run_conv_calcs"} THEN 0
    ELSE IF p.step \in {"analyze_conv", "store_conv"} THEN 7
    ELSE IF p.phase = "final" THEN 8
    ELSE (IF p.phase = "org" THEN 1 ELSE IF p.phase = "disp" THEN 3 ELSE 5)
         + (IF p.step \in {"if_run_kpoints", "run_kpoints_conv_many",
                           "save_kpoints_conv_many"} THEN 1 ELSE 0)

\* C27: every step moves the search to a later position of the outline and
\* never to an earlier phase, so no phase is re-entered; and when every
\* sub-workchain submitted resolves and the engine keeps running the steps,
\* the search ends, by its last step or by a step that raised.
C27_ForwardAndTerminates ==
    /\ [][/\ SearchPhase(pc') >= SearchPhase(pc)
          /\ pc' # pc => Position(pc') > Position(pc)]_vars
    /\ <>Ended

\* C27: a search with both variants and both sweeps has passed through the
\* phases and run to its end
C27_Witness ==
    /\ pc.step = "done" /\ inputs.displace /\ inputs.compress
    /\ PwSwept /\ KSwept /\ inputs.pwcutoff_samples = 3
    /\ Cardinality(SweepCalcs) = 18
    /\ Cardinality(FinalCalcs) = 1

(***************************************************************************)
(* The k-point grids of the sweep on their own: the spacings and the       *)
(* number of samples are drawn by the initial state and initialize builds  *)
(* the list of grids from them.                                            *)
(***************************************************************************)
MaxSpacing == 12

MaxSamples == 4

KConfigs ==
    [displace : {FALSE}, compress : {FALSE},
     pwcutoff : {None}, encut : {None},
     kpoints : {None}, kgrid : {None},
     testing : {FALSE},
     cutoff_type : {"energy"},
     cutoff_value : {1}, cutoff_value_r : {1},
     pwcutoff_start : {200}, pwcutoff_step : {50}, pwcutoff_samples : {3},
     k_coarse : 1..MaxSpacing, k_dense : 1..MaxSpacing,
     k_samples : 1..MaxSamples, k_spacing : {4},
     relax_perform : {TRUE}, conv_relax : {FALSE}]

InitKgrids ==
    /\ inputs \in KConfigs
    /\ pc = [step |-> "initialize", phase |-> "org"]
    /\ status = "running"
    /\ settings = InitContext(inputs).settings
    /\ converge = InitContext(inputs).converge
    /\ cinputs = InitContext(inputs).cinputs
    /\ wc = InitContext(inputs).wc
    /\ calcs = << >>
    /\ reports = {}
    /\ outputs = InitContext(inputs).outputs
    /\ chk = IdleChk
    /\ permuted = FALSE

SpecKgrids == InitKgrids /\ [][initialize]_vars

\* The grid of every spacing of converge.k_sampling, duplicates included
AllKgrids ==
    [n \in 1..Len(converge.k_sampling) |->
        FetchKGrid(RecCell(OrigStructure), converge.k_sampling[n])]

\* The spacings whose grid differs from the grid of the spacing before
RunStarts ==
    {n \in 1..Len(converge.k_sampling) :
        n = 1 \/ AllKgrids[n] # AllKgrids[n - 1]}

\* The n-th of them
RunStart(n) ==
    CHOOSE i \in RunStarts : Cardinality({j \in RunStarts : j < i}) = n - 1

KgridsBuilt == pc.step # "initialize" /\ converge.kgrids_set

\* C28: the list of grids built from the k_samples + 1 spacings holds no
\* two consecutive equal grids, and it is the list of the grids of the
\* spacings, in the order of the spacings, with the first grid of every run
\* of equal grids and no other.
C28_ConsecutiveDuplicatesDropped ==
    KgridsBuilt
    => /\ Len(converge.k_sampling) = inputs.k_samples + 1
       /\ \A n \in 1..(Len(converge.kgrids) - 1) :
             converge.kgrids[n] # converge.kgrids[n + 1]
       /\ Len(converge.kgrids) = Cardinality(RunStarts)
       /\ \A n \in 1..Len(converge.kgrids) :
             converge.kgrids[n] = AllKgrids[RunStart(n)]

\* C28: a list was built from coarse to dense spacings of which several
\* gave the same grid, and more than one grid is left
C28_Witness ==
    /\ KgridsBuilt
    /\ inputs.k_coarse > inputs.k_dense
    /\ Len(converge.kgrids) >= 2
    /\ Len(converge.kgrids) + 2 <= Len(converge.k_sampling)

\* The number of k-points of a mesh
MeshDensity(kgrid) == kgrid[1] * kgrid[2] * kgrid[3]

\* C29 as stated: from coarse to dense spacings the mesh density never
\* increases from one grid of the list to the next.
C29_DensityNonIncreasing ==
    KgridsBuilt /\ inputs.k_coarse > inputs.k_dense
    => \A n \in 1..(Len(converge.kgrids) - 1) :
          MeshDensity(converge.kgrids[n + 1]) <= MeshDensity(converge.kgrids[n])

\* C29: from coarse to dense spacings the mesh density never decreases from
\* one grid of the list to the next, in any direction of the mesh.
C29_DensityNonDecreasing ==
    KgridsBuilt /\ inputs.k_coarse > inputs.k_dense
    => \A n \in 1..(Len(converge.kgrids) - 1) :
          /\ MeshDensity(converge.kgrids[n]) <= MeshDensity(converge.kgrids[n + 1])
          /\ \A d \in 1..3 : converge.kgrids[n][d] <= converge.kgrids[n + 1][d]

\* C29: a list built from coarse to dense spacings whose last grid is
\* denser than its first
C29_Witness ==
    /\ KgridsBuilt
    /\ inputs.k_coarse > inputs.k_dense
    /\ Len(converge.kgrids) >= 3
    /\ MeshDensity(converge.kgrids[1])
          < MeshDensity(converge.kgrids[Len(converge.kgrids)])

(***************************************************************************)
(* create_delithiated_multiple_level of process/battery.py: the loop that  *)
(* enumerates the delithiated structures and raises the symmetry           *)
(* tolerance when the enumeration fails.  The locals of the function are   *)
(* held by chk.  A tolerance is a whole number of 1e-5, the default atol.  *)
(***************************************************************************)
MaxMantissa == 3

MaxExponent == 3

\* The largest number of Li atoms of the structure
MaxLi == 2

\* The ceiling 0.01 of the tolerance
AtolCeiling == 1000

RECURSIVE Pow10(_)
Pow10(k) == IF k = 0 THEN 1 ELSE 10 * Pow10(k - 1)

\* The values of params["atol"]: zero and positive, below, at and above the
\* ceiling
Atols == {m * Pow10(k) : m \in 0..MaxMantissa, k \in 0..(MaxExponent + 1)}

\* The inputs of create_delithiated_structures_multiple_levels: nli, the Li
\* atoms of the structure; final2, the Li atoms left at final_li_level in
\* half atoms (final_li_level / lithiation_level * nli); persisting,
\* pick_ewald_n_lowest given without oxidation_state_mapping; needed, the
\* tolerance below which unique_structure_substitutions raises ValueError
Enumerations ==
    [persisting : BOOLEAN, needed : {0, 10, AtolCeiling},
     nli : 1..MaxLi, final2 : 0..(2 * MaxLi + 2)]

\* max_remove = nli * frac_remove, in half atoms
MaxRemove2(enumeration) == 2 * enumeration.nli - enumeration.final2

\* create_delithiated_structures_multiple_levels: RuntimeError when
\* max_remove is no integer; then for num_remove in range(1, max_remove + 1)
\* the frames of the level, a ValueError of the substitution or of the
\* missing oxidation_state_mapping; records holds one key per level
CreateDelithiatedStructuresMultipleLevels(enumeration, atol) ==
    IF MaxRemove2(enumeration) % 2 # 0
    THEN [exc |-> "RuntimeError", records |-> 0]
    ELSE IF MaxRemove2(enumeration) < 2
    THEN [exc |-> "none", records |-> 0]
    ELSE IF atol < enumeration.needed \/ enumeration.persisting
    THEN [exc |-> "ValueError", records |-> 0]
    ELSE [exc |-> "none", records |-> MaxRemove2(enumeration) \div 2]

Raises(enumeration, atol) ==
    CreateDelithiatedStructuresMultipleLevels(enumeration, atol).exc
        = "ValueError"

\* The locals at the head of the loop: atol, ok = False, no frame_dict
RetryCalls ==
    [kind : {"retry"}, enumeration : Enumerations, atol0 : Atols,
     atol : Atols, ok : {FALSE}, frame_dict : {FALSE}, levels : {0},
     error : {"none"}, pos : {"try"}]

InitRetry ==
    /\ inputs \in {c \in Configs : /\ c.displace /\ c.compress
                                   /\ c.pwcutoff = None /\ c.kpoints = None
                                   /\ ~c.testing /\ c.cutoff_value_r = 1
                                   /\ c.pwcutoff_samples = 3}
    /\ pc = [step |-> "initialize", phase |-> "org"]
    /\ status = "running"
    /\ settings = InitContext(inputs).settings
    /\ converge = InitContext(inputs).converge
    /\ cinputs = InitContext(inputs).cinputs
    /\ wc = InitContext(inputs).wc
    /\ calcs = << >>
    /\ reports = {}
    /\ outputs = InitContext(inputs).outputs
    /\ permuted = FALSE
    /\ chk \in {c \in RetryCalls : c.atol = c.atol0}

RetryUnchanged ==
    UNCHANGED << inputs, pc, status, settings, converge, cinputs, wc, calcs,
                 reports, outputs, permuted >>

\* The try statement of the loop: the enumeration at the tolerance atol;
\* "except ValueError: atol *= 10", "else: ok = True"; another exception
\* leaves the function
TryEnumerate(c) ==
    LET r == CreateDelithiatedStructuresMultipleLevels(c.enumeration, c.atol)
    IN  IF r.exc = "ValueError" THEN [c EXCEPT !.atol = 10 * c.atol]
        ELSE IF r.exc = "RuntimeError" THEN [c EXCEPT !.error = r.exc]
        ELSE [c EXCEPT !.ok = TRUE, !.frame_dict = TRUE,
                       !.levels = r.records]

\* "if atol > 0.01: raise ValueError", the last statement of the loop body,
\* and the loop condition "while not ok"
CheckCeiling(c) ==
    IF c.atol > AtolCeiling
    THEN [c EXCEPT !.pos = "aborted", !.error = "Persisting symmetry error"]
    ELSE IF c.ok THEN [c EXCEPT !.pos = "convert"]
    ELSE [c EXCEPT !.pos = "try"]

try_enumerate ==
    /\ chk.kind = "retry" /\ chk.pos = "try"
    /\ \E c \in {TryEnumerate(chk)} :
          chk' = [c EXCEPT !.pos = IF c.error = "none" THEN "check"
                                  ELSE "aborted"]
    /\ RetryUnchanged

check_ceiling ==
    /\ chk.kind = "retry" /\ chk.pos = "check"
    /\ chk' = CheckCeiling(chk)
    /\ RetryUnchanged

\* The conversion of frame_dict to the output dictionary and the return
convert_frames ==
    /\ chk.kind = "retry" /\ chk.pos = "convert"
    /\ chk' = [chk EXCEPT !.pos = "returned"]
    /\ RetryUnchanged

NextRetry ==
    \/ try_enumerate
    \/ check_ceiling
    \/ convert_frames

SpecRetry == InitRetry /\ [][NextRetry]_vars

\* The interpreter keeps executing the statements of the function
FairRetry == SpecRetry /\ WF_vars(NextRetry)

RetryEnded == chk.pos \in {"returned", "aborted"}

\* C30: an enumeration that raised ValueError is followed by the tolerance
\* ten times as large; with the tolerance above the ceiling 0.01 at the end
\* of an attempt the function fails; the structures are returned only from
\* an enumeration that succeeded; and for every initial tolerance the loop
\* ends, with the structures or with the error.
C30_RetryTerminates ==
    /\ [][/\ chk.pos = "try" /\ Raises(chk.enumeration, chk.atol)
                => chk'.atol = 10 * chk.atol /\ ~chk'.ok
          /\ chk.pos = "check" /\ chk.atol > AtolCeiling
                => chk'.pos = "aborted"
          /\ chk'.pos = "returned" => chk.frame_dict]_vars
    /\ <>RetryEnded

\* The first attempt of the call has been made
Attempted == chk.kind = "retry" /\ chk.pos # "try"

\* C31: when the final lithiation level asks for a number of atoms to
\* remove that is no integer, or for zero atoms to remove, the enumeration
\* raises its fatal error and no structure is generated.
C31_FatalOnInconsistentLevel ==
    /\ Attempted
    /\ \/ MaxRemove2(chk.enumeration) % 2 # 0
       \/ MaxRemove2(chk.enumeration) = 0
    => chk.error = "RuntimeError" /\ ~chk.frame_dict

\* C37: a successful attempt is never followed by the failure 'Persisting
\* symmetry error'.
C37_SuccessIsReturned ==
    chk.kind = "retry" /\ chk.ok => chk.error # "Persisting symmetry error"

\* The enumeration at this tolerance raises a configuration error: the
\* number of atoms to remove is no integer, or the frames of the first level
\* were generated and pick_ewald_n_lowest has no oxidation_state_mapping
ConfigurationError(enumeration, atol) ==
    \/ MaxRemove2(enumeration) % 2 # 0
    \/ /\ MaxRemove2(enumeration) >= 2
       /\ atol >= enumeration.needed
       /\ enumeration.persisting

\* C38: an attempt that meets a configuration error ends the function with
\* that error: the tolerance is not changed and no other attempt follows.
C38_ConfigErrorsNotRetried ==
    [][chk.kind = "retry" /\ chk.pos = "try"
       /\ ConfigurationError(chk.enumeration, chk.atol)
          => /\ chk'.pos = "aborted"
             /\ chk'.atol = chk.atol
             /\ chk'.error # "Persisting symmetry error"]_vars

(***************************************************************************)
(* The end of the search                                                   *)
(***************************************************************************)
\* The final calculation the context records, ctx.workchains[-1]
LastWorkchain == calcs[wc.workchains[Len(wc.workchains)]]

SuppliedConfigs ==
    [displace : BOOLEAN, compress : BOOLEAN,
     pwcutoff : {None, Some(300)}, encut : {None, Some(250)},
     kpoints : {None, << 4, 4, 4 >>}, kgrid : {None, << 3, 3, 3 >>},
     testing : {FALSE},
     cutoff_type : {"energy", "vbm"},
     cutoff_value : {1}, cutoff_value_r : {1},
     pwcutoff_start : {200}, pwcutoff_step : {50}, pwcutoff_samples : {3},
     k_coarse : {6}, k_dense : {2}, k_samples : {2}, k_spacing : {4},
     relax_perform : {TRUE}, conv_relax : {FALSE}]

InitSupplied ==
    /\ inputs \in SuppliedConfigs
    /\ pc = [step |-> "initialize", phase |-> "org"]
    /\ status = "running"
    /\ settings = InitContext(inputs).settings
    /\ converge = InitContext(inputs).converge
    /\ cinputs = InitContext(inputs).cinputs
    /\ wc = InitContext(inputs).wc
    /\ calcs = << >>
    /\ reports = {}
    /\ outputs = InitContext(inputs).outputs
    /\ chk = IdleChk
    /\ permuted = FALSE

SpecSupplied == InitSupplied /\ [][Next]_vars

\* converge.kgrid is supplied, without a kpoints mesh and without a cutoff
KgridOnly ==
    /\ inputs.kgrid # None /\ inputs.kpoints = None
    /\ inputs.pwcutoff = None /\ inputs.encut = None

\* C33: with converge.kgrid supplied, no kpoints mesh and no cutoff, no
\* calculation of a k-point sweep is submitted, every calculation of a
\* cutoff sweep and the final calculation run on the supplied k-grid, and
\* no step of the search fails.
C33_SuppliedKgridUsed ==
    KgridOnly
    => /\ \A i \in SweepCalcs :
             /\ calcs[i].key = "pw_workchains"
             /\ calcs[i].kpoints.mesh = inputs.kgrid
       /\ \A f \in FinalCalcs : calcs[f].kpoints.mesh = inputs.kgrid
       /\ status # "excepted"

\* C36: an encut of the parameters input is the supplied cutoff whatever
\* converge.pwcutoff says: no cutoff sweep is run and every calculation is
\* submitted with it; a supplied kpoints mesh is the mesh of every
\* calculation whatever converge.kgrid says, which never reaches the
\* settings, and no k-point sweep is run.
C36_ParametersAndMeshFirst ==
    /\ inputs.encut # None
       => /\ settings.pwcutoff_org = inputs.encut
          /\ settings.pwcutoff = inputs.encut
          /\ \A i \in 1..Len(calcs) :
                /\ calcs[i].key # "pw_workchains"
                /\ calcs[i].encut = inputs.encut
    /\ inputs.kpoints # None
       => /\ settings.supplied_kmesh
          /\ settings.kgrid_org = None /\ settings.kgrid = None
          /\ \A i \in 1..Len(calcs) :
                /\ calcs[i].key # "kpoints_workchains"
                /\ calcs[i].kpoints.mesh = inputs.kpoints

\* C36: a search given the cutoff and the k-points in both ways has ended
\* after its final calculation
C36_Witness ==
    /\ pc.step = "done" /\ status = "running"
    /\ inputs.encut # None /\ inputs.pwcutoff # None
    /\ inputs.encut # inputs.pwcutoff
    /\ inputs.kpoints # None /\ inputs.kgrid # None
    /\ inputs.kpoints # inputs.kgrid
    /\ Cardinality(FinalCalcs) = 1

(***************************************************************************)
(* The batches of the displaced and the compressed phase                   *)
(***************************************************************************)
\* A save_*_conv_many step of the displaced or the compressed phase that ran
\* through
SavedBatch(step) ==
    /\ pc.step = step /\ pc.phase # "org"
    /\ pc' # pc /\ status' = "running"

\* C34: in the displaced and the compressed phase, save_pw_conv_many and
\* save_kpoints_conv_many make one row per calculation of the batch that
\* run_*_conv_many submitted in this phase, in the order of submission, from
\* the observables of that calculation, which ran on the structure of the
\* phase; the list of ctx keeps the batch alone.
C34_RowsFromThisPhase ==
    [][ /\ SavedBatch("save_pw_conv_many")
           => /\ wc'.pw_workchains = wc.pw_workchains_uuids
              /\ Len(converge'.pw_data.rows) = Len(wc.pw_workchains_uuids)
              /\ \A i \in 1..Len(wc.pw_workchains_uuids) :
                    LET workchain == calcs[wc.pw_workchains_uuids[i]]
                    IN  /\ workchain.structure = converge.structure
                        /\ workchain.key = "pw_workchains"
                        /\ SubSeq(converge'.pw_data.rows[i], 2, 5)
                               = Observables(workchain)
        /\ SavedBatch("save_kpoints_conv_many")
           => /\ wc'.kpoints_workchains = wc.kpoints_workchains_uuids
              /\ Len(converge'.k_data.rows)
                     = Len(wc.kpoints_workchains_uuids)
              /\ \A i \in 1..Len(wc.kpoints_workchains_uuids) :
                    LET workchain == calcs[wc.kpoints_workchains_uuids[i]]
                    IN  /\ workchain.structure = converge.structure
                        /\ workchain.key = "kpoints_workchains"
                        /\ SubSeq(converge'.k_data.rows[i], 5, 8)
                               = Observables(workchain)
      ]_vars

\* C34: the cutoff batch of a later phase has been saved, and a calculation
\* of an earlier phase that returned other observables than every
\* calculation of the batch has left ctx.pw_workchains
C34_Witness ==
    /\ pc.step = "if_analyze_pw" /\ pc.phase # "org" /\ status = "running"
    /\ converge.pw_data.rows # << >>
    /\ \E i \in 1..Len(calcs) :
          /\ calcs[i].key = "pw_workchains"
          /\ ~InSeq(i, wc.pw_workchains)
          /\ calcs[i].structure # converge.structure
          /\ \A j \in 1..Len(wc.pw_workchains) :
                Observables(calcs[i])
                    # Observables(calcs[wc.pw_workchains[j]])

(***************************************************************************)
(* Convergence on the valence band maximum                                 *)
(***************************************************************************)
\* The tables of samples held by the context
SampleTables(first) ==
    IF first = 1 THEN {converge.pw_data, converge.pw_data_org}
    ELSE {converge.k_data, converge.k_data_org}

\* The second of the rows without None, 0 when there are fewer than two
SecondKept(t) ==
    IF Cardinality(Kept(t)) < 2 THEN 0
    ELSE CHOOSE i \in Kept(t) :
            Cardinality({j \in Kept(t) : j < i}) = 1

\* C35: every row of a sample that did not fail holds 0 for the valence
\* band maximum; hence, for every table of samples the search holds and
\* every positive threshold, the checker on vbm returns the cutoff (the
\* grid) of the second sample that did not fail when there is one; and the
\* cutoff sweep of a search on vbm settles on that cutoff.
C35_VbmConvergesAtSecondSample ==
    /\ \A first \in {1, 4} : \A t \in SampleTables(first) :
          t.kind = "list" =>
             /\ \A i \in Kept(t.rows) :
                   t.rows[i][MetricColumn(first, "vbm")] = Some(0)
             /\ \A threshold \in Thresholds :
                   SecondKept(t.rows) # 0 =>
                      LET row == t.rows[SecondKept(t.rows)]
                      IN  IF first = 1
                          THEN CheckPwConverged(t.rows, "vbm", threshold)
                                   = row[1]
                          ELSE CheckKpointsConverged(t.rows, "vbm",
                                                     threshold)
                                   = << row[1][1], row[2][1], row[3][1] >>
    /\ /\ inputs.cutoff_type = "vbm" /\ status = "running"
       /\ pc = [step |-> "if_run_kpoints", phase |-> "org"]
       /\ settings.pwcutoff_org = None
       /\ SecondKept(converge.pw_data.rows) # 0
       => settings.pwcutoff
            = converge.pw_data.rows[SecondKept(converge.pw_data.rows)][1]

\* C35: the cutoff sweep of a search on vbm has settled on the cutoff of the
\* second sample that did not fail, although the energies of the first two
\* such samples differ by the threshold or more
C35_Witness ==
    /\ inputs.cutoff_type = "vbm" /\ status = "running"
    /\ pc = [step |-> "if_run_kpoints", phase |-> "org"]
    /\ settings.pwcutoff_org = None
    /\ LET t == converge.pw_data.rows
           i == SecondKept(t)
       IN  /\ i # 0
           /\ settings.pwcutoff = t[i][1]
           /\ Abs(t[i][2][1] - t[PrevKept(t, i)][2][1]) >= inputs.cutoff_value

(***************************************************************************)
(* VaspAutoPhononWorkChain (phonon_wc.py): the outline from setup to the   *)
(* submission of the force and NAC calculations.  The work chain is the    *)
(* record held by chk: its inputs, its context, the sub-workchains it has  *)
(* submitted and its position in the outline.  phonon_settings passed its  *)
(* validator, so supercell_matrix is present.                              *)
(***************************************************************************)
ERROR_RELAX_FAILURE == 501

\* The most displaced supercells that phonopy generates
MaxDisplacements == 2

\* A cell that generate_phonopy_cells derives from a structure: the
\* primitive cell, the perfect supercell (index 0) or a displaced supercell
Cell(base, cell, index) == [base |-> base, cell |-> cell, index |-> index]

Bulk(structure) == Cell(structure, "bulk", 0)

\* No cell: ctx holds none under the key yet
NoCell == Cell("none", "none", 0)

PhononCalls ==
    [kind : {"phonon"},
     relax : BOOLEAN,
     reuse_supercell_calc : {"absent", "retrieve", "restart"},
     nac : BOOLEAN,
     subtract_residual_forces : BOOLEAN,
     displacements : 1..MaxDisplacements,
     pos : {"setup"}, exit_code : {0}, exc : {"none"},
     current_structure : {"unset"},
     primitive : {NoCell}, supercell : {NoCell},
     supercell_structures : {<< >>},
     supercell_chgcar : {"unset"}, supercell_remote_folder : {"unset"},
     subs : {<< >>}]

InitPhonon ==
    /\ inputs \in {c \in Configs : /\ c.displace /\ c.compress
                                   /\ c.pwcutoff = None /\ c.kpoints = None
                                   /\ ~c.testing /\ c.cutoff_value_r = 1
                                   /\ c.pwcutoff_samples = 3}
    /\ pc = [step |-> "initialize", phase |-> "org"]
    /\ status = "running"
    /\ settings = InitContext(inputs).settings
    /\ converge = InitContext(inputs).converge
    /\ cinputs = InitContext(inputs).cinputs
    /\ wc = InitContext(inputs).wc
    /\ calcs = << >>
    /\ reports = {}
    /\ outputs = InitContext(inputs).outputs
    /\ permuted = FALSE
    /\ chk \in PhononCalls

\* should_run_relax
ShouldRunRelax(c) == c.relax

\* should_run_supercell_chgcar
ShouldRunSupercellChgcar(c) == c.reuse_supercell_calc # "absent"

\* self.submit: a sub-workchain with its call link label and its inputs,
\* pending until the engine resolves it
Submit(c, label, structure, chgcar, restart_folder) ==
    [c EXCEPT !.subs = Append(@,
        [label |-> label, structure |-> structure,
         chgcar |-> chgcar, restart_folder |-> restart_folder,
         state |-> "pending", is_finished_ok |-> FALSE,
         has_chgcar |-> FALSE])]

\* The sub-workchain that ctx holds under a label
Called(c, label) ==
    c.subs[CHOOSE i \in 1..Len(c.subs) : c.subs[i].label = label]

\* A step of the outline runs when no awaited sub-workchain is pending
AtPhononStep(pos) ==
    /\ chk.kind = "phonon" /\ chk.pos = pos
    /\ chk.exc = "none" /\ chk.exit_code = 0
    /\ \A i \in 1..Len(chk.subs) : chk.subs[i].state # "pending"

PhononStep(c) ==
    /\ chk' = c
    /\ RetryUnchanged

setup ==
    /\ AtPhononStep("setup")
    /\ PhononStep([chk EXCEPT
          !.current_structure = "input",
          !.pos = IF ShouldRunRelax(chk) THEN "run_relaxation"
                  ELSE "create_displacements"])

run_relaxation ==
    /\ AtPhononStep("run_relaxation")
    /\ PhononStep([Submit(chk, "high_prec_relax", Bulk("input"),
                          "none", "none")
                      EXCEPT !.pos = "inspect_relaxation"])

\* inspect_relaxation going on whatever the relaxation returned
MutInspectRelaxationGoesOn(c) ==
    [c EXCEPT !.current_structure = "relaxed",
              !.pos = "create_displacements"]

\* inspect_relaxation
InspectRelaxation(c) ==
    IF ~Called(c, "high_prec_relax").is_finished_ok
    THEN [c EXCEPT !.exit_code = ERROR_RELAX_FAILURE]
    ELSE [c EXCEPT !.current_structure = "relaxed",
                   !.pos = "create_displacements"]

inspect_relaxation ==
    /\ AtPhononStep("inspect_relaxation")
    /\ PhononStep(InspectRelaxation(chk))

\* create_displacements: the cells that generate_phonopy_cells makes of
\* ctx.current_structure; with subtract_residual_forces the perfect
\* supercell is added to the displaced ones
create_displacements ==
    /\ AtPhononStep("create_displacements")
    /\ PhononStep([chk EXCEPT
          !.primitive = Cell(chk.current_structure, "primitive", 0),
          !.supercell = Cell(chk.current_structure, "supercell", 0),
          !.supercell_structures =
              [i \in 1..chk.displacements |->
                  Cell(chk.current_structure, "supercell", i)]
              \o (IF chk.subtract_residual_forces
                  THEN << Cell(chk.current_structure, "supercell", 0) >>
                  ELSE << >>),
          !.pos = IF ShouldRunSupercellChgcar(chk)
                  THEN "run_supercell_chgcar"
                  ELSE "run_force_and_nac_calcs"])

run_supercell_chgcar ==
    /\ AtPhononStep("run_supercell_chgcar")
    /\ PhononStep([Submit(chk, "supercell_calc", chk.supercell,
                          "none", "none")
                      EXCEPT !.pos = "inspect_supercell_calc"])

inspect_supercell_calc ==
    /\ AtPhononStep("inspect_supercell_calc")
    /\ LET workchain == Called(chk, "supercell_calc")
       IN  PhononStep(
             IF ~workchain.is_finished_ok
             THEN [chk EXCEPT !.exit_code = ERROR_RELAX_FAILURE]
             ELSE IF workchain.has_chgcar
             THEN [chk EXCEPT !.supercell_chgcar = "supercell_calc.chgcar",
                              !.supercell_remote_folder = "None",
                              !.pos = "run_force_and_nac_calcs"]
             ELSE [chk EXCEPT !.supercell_chgcar = "None",
                              !.supercell_remote_folder =
                                  "supercell_calc.remote_folder",
                              !.pos = "run_force_and_nac_calcs"])

\* The loop of run_force_and_nac_calcs over ctx.supercell_structures
RECURSIVE SubmitForceCalcs(_, _, _, _)
SubmitForceCalcs(c, chgcar, restart_folder, i) ==
    IF i > Len(c.supercell_structures) THEN c
    ELSE SubmitForceCalcs(
            Submit(c, "force_calc", c.supercell_structures[i],
                   chgcar, restart_folder),
            chgcar, restart_folder, i + 1)

\* run_force_and_nac_calcs: with a CHGCAR recorded it reads ctx.chgcar,
\* which no step assigns (AttributeError), before anything is submitted
RunForceAndNacCalcs(c) ==
    IF ShouldRunSupercellChgcar(c) /\ c.supercell_chgcar # "None"
    THEN [c EXCEPT !.exc = "AttributeError"]
    ELSE LET restart_folder ==
                 IF ShouldRunSupercellChgcar(c)
                 THEN c.supercell_remote_folder ELSE "none"
             forces == SubmitForceCalcs(c, "none", restart_folder, 1)
             all == IF c.nac
                    THEN Submit(forces, "nac_calc", c.primitive,
                                "none", "none")
                    ELSE forces
         IN  [all EXCEPT !.pos = "create_force_set_and_constants"]

run_force_and_nac_calcs ==
    /\ AtPhononStep("run_force_and_nac_calcs")
    /\ PhononStep(RunForceAndNacCalcs(chk))

\* The engine resolves one pending sub-workchain: it finishes OK or not;
\* the outputs of a supercell calculation that finished OK hold a CHGCAR
\* or not
phonon_resolve ==
    /\ chk.kind = "phonon"
    /\ \E i \in 1..Len(chk.subs) :
          /\ chk.subs[i].state = "pending"
          /\ \E ok \in BOOLEAN, has_chgcar \in BOOLEAN :
                /\ has_chgcar => ok /\ chk.subs[i].label = "supercell_calc"
                /\ PhononStep([chk EXCEPT
                      !.subs[i].state = "finished",
                      !.subs[i].is_finished_ok = ok,
                      !.subs[i].has_chgcar = has_chgcar])

NextPhonon ==
    \/ setup
    \/ run_relaxation
    \/ inspect_relaxation
    \/ create_displacements
    \/ run_supercell_chgcar
    \/ inspect_supercell_calc
    \/ run_force_and_nac_calcs
    \/ phonon_resolve

SpecPhonon == InitPhonon /\ [][NextPhonon]_vars

\* The sub-workchains submitted under a label
SubsLabelled(label) ==
    {i \in 1..Len(chk.subs) : chk.subs[i].label = label}

\* C39: once the relaxation or the supercell calculation has finished not
\* OK and has been inspected, the work chain has exit code 501 and holds no
\* force or NAC calculation (nor, after a failed relaxation, any cell or
\* supercell calculation); the exit code is only set at these two steps,
\* and a work chain that has it takes no further step.  Once a relaxation
\* that finished OK has been inspected, every cell generated and every
\* sub-workchain other than the relaxation is built on the relaxed
\* structure.
C39_RelaxFailureStops ==
    chk.kind = "phonon" =>
    /\ \A i \in SubsLabelled("high_prec_relax") :
          /\ chk.subs[i].state = "finished"
          /\ ~chk.subs[i].is_finished_ok
          /\ ~(chk.pos = "inspect_relaxation" /\ chk.exit_code = 0)
          => /\ chk.exit_code = ERROR_RELAX_FAILURE
             /\ Len(chk.subs) = 1
             /\ chk.supercell_structures = << >>
             /\ chk.primitive = NoCell /\ chk.supercell = NoCell
    /\ \A i \in SubsLabelled("supercell_calc") :
          /\ chk.subs[i].state = "finished"
          /\ ~chk.subs[i].is_finished_ok
          /\ ~(chk.pos = "inspect_supercell_calc" /\ chk.exit_code = 0)
          => /\ chk.exit_code = ERROR_RELAX_FAILURE
             /\ SubsLabelled("force_calc") = {}
             /\ SubsLabelled("nac_calc") = {}
    /\ chk.exit_code # 0
          => /\ chk.exit_code = ERROR_RELAX_FAILURE
             /\ chk.pos \in {"inspect_relaxation", "inspect_supercell_calc"}
             /\ ~ENABLED NextPhonon
    /\ \A i \in SubsLabelled("high_prec_relax") :
          /\ chk.subs[i].state = "finished"
          /\ chk.subs[i].is_finished_ok
          /\ chk.pos # "inspect_relaxation"
          => /\ chk.current_structure = "relaxed"
             /\ \A j \in 1..Len(chk.subs) :
                   j # i => chk.subs[j].structure.base = "relaxed"
             /\ \A cell \in {chk.primitive, chk.supercell}
                        \cup {chk.supercell_structures[j] :
                                j \in 1..Len(chk.supercell_structures)} :
                   cell # NoCell => cell.base = "relaxed"

\* C39: after a relaxation that finished OK the supercell calculation, on
\* the supercell of the relaxed structure, failed: the work chain has
\* stopped with 501 and no force calculation
C39_Witness ==
    /\ chk.kind = "phonon"
    /\ chk.exit_code = ERROR_RELAX_FAILURE
    /\ chk.pos = "inspect_supercell_calc"
    /\ \E i \in SubsLabelled("high_prec_relax") : chk.subs[i].is_finished_ok
    /\ \E i \in SubsLabelled("supercell_calc") :
          /\ ~chk.subs[i].is_finished_ok
          /\ chk.subs[i].structure = Cell("relaxed", "supercell", 0)
    /\ chk.supercell_structures # << >>
    /\ SubsLabelled("force_calc") = {}

\* run_force_and_nac_calcs has run: it went on to the next step of the
\* outline, or it raised
ForceStepRan ==
    /\ chk.kind = "phonon"
    /\ \/ chk.pos = "create_force_set_and_constants"
       \/ chk.pos = "run_force_and_nac_calcs" /\ chk.exc # "none"

\* C40: when reuse_supercell_calc is set and the supercell calculation
\* finished OK, run_force_and_nac_calcs submits one force calculation for
\* every displaced supercell, each with the CHGCAR of the supercell
\* calculation when its outputs hold one, and with its remote folder as
\* restart folder otherwise.
C40_ForceCalcsReuseSupercell ==
    /\ ForceStepRan
    /\ ShouldRunSupercellChgcar(chk)
    /\ Called(chk, "supercell_calc").is_finished_ok
    => /\ \A k \in 1..chk.displacements :
            Cardinality({i \in SubsLabelled("force_calc") :
                            chk.subs[i].structure
                                = chk.supercell_structures[k]}) = 1
       /\ \A i \in SubsLabelled("force_calc") :
            IF Called(chk, "supercell_calc").has_chgcar
            THEN /\ chk.subs[i].chgcar = "supercell_calc.chgcar"
                 /\ chk.subs[i].restart_folder = "none"
            ELSE /\ chk.subs[i].restart_folder
                        = "supercell_calc.remote_folder"
                 /\ chk.subs[i].chgcar = "none"

=============================================================================
